---- MODULE Spec2Model ----
(***************************************************************************)
(* Content validation pipeline of sciencehabits-content-api.               *)
(*                                                                         *)
(* Three programs are modelled, each a process of its own:                 *)
(*   - the main validator  (class ContentValidator, src/unnamed/part_000)  *)
(*   - the goal validator  (src/scripts/validate-goal-content.js)          *)
(*   - the test validator  (src/tests/content-validation.test.js)          *)
(* While one of them runs, the variables of the others keep their idle     *)
(* values.                                                                 *)
(*                                                                         *)
(* JSON strings are tuples of one-character strings, so that length,       *)
(* pattern, substring and word-count computations are carried out on the   *)
(* characters as the code does.  Enumerated values and field names are     *)
(* TLA+ strings.  A record is a function from the names of the fields it   *)
(* has to their values: a missing field is a name outside its DOMAIN.      *)
(***************************************************************************)
EXTENDS Integers, Sequences, FiniteSets, TLC

VARIABLES
    fs,          \* main validator: content files, [<<type, language>> -> file]
    dirs,        \* main validator: the content directories that exist
    pc,          \* main validator: the phase validateAll executes next
    errors,      \* this.errors
    warnings,    \* this.warnings
    stats,       \* this.stats (validationTime is wall-clock time, left out)
    console,     \* what generateReport printed
    report,      \* validation-report.json
    currentYear, \* new Date().getFullYear()
    exitCode,    \* the process exit status, -1 while the process runs
    previous,    \* main validator: what the run before this one came to
    goalDir,         \* goal validator: whether CONTENT_DIR exists
    goalFiles,       \* goal validator: [<<pattern, language>> -> file] in CONTENT_DIR
    goalPc,          \* goal validator: the step main executes next
    discoveredFiles, \* main's discoveredFiles
    cursor,          \* index in discoveredFiles of the file main validates next
    validatedFiles,  \* main's validatedFiles
    goalExitCode,    \* main's local exitCode
    goalConsole,     \* what console.error and console.warn printed
    goalReport,      \* content-validation-report.json
    goalStatus,      \* the goal validator's exit status, -1 while it runs
    testFiles,       \* test validator: [language -> file], the REQUIRED_FILES
    testPc,          \* test validator: the test validateAll runs next
    testErrors,      \* test validator: this.errors
    testWarnings,    \* test validator: this.warnings
    testStats,       \* test validator: this.stats
    testStatus       \* the test validator's exit status, -1 while it runs

mainVars ==
    <<fs, dirs, pc, errors, warnings, stats, console, report, currentYear, exitCode,
      previous>>

goalVars ==
    <<goalDir, goalFiles, goalPc, discoveredFiles, cursor, validatedFiles,
      goalExitCode, goalConsole, goalReport, goalStatus>>

testVars == <<testFiles, testPc, testErrors, testWarnings, testStats, testStatus>>

vars == <<mainVars, goalVars, testVars>>

-----------------------------------------------------------------------------
(* Strings *)

Rep(c, n) == [i \in 1..n |-> c]

\* k words of n characters each, separated by single spaces
RECURSIVE Words(_, _)
Words(k, n) == IF k <= 1 THEN Rep("w", n) ELSE Rep("w", n) \o <<" ">> \o Words(k - 1, n)

TODO == <<"T", "O", "D", "O">>
Placeholder == <<"p", "l", "a", "c", "e", "h", "o", "l", "d", "e", "r">>

\* the string JavaScript makes of `undefined` in a concatenation or a join
UndefinedStr == <<"u", "n", "d", "e", "f", "i", "n", "e", "d">>

\* the value of a property the object does not have
Undefined == <<"undefined">>

LowerChars == {"a", "b", "c", "d", "e", "f", "g", "h", "i", "j", "k", "l", "m",
               "n", "o", "p", "q", "r", "s", "t", "u", "v", "w", "x", "y", "z"}
UpperChars == {"A", "B", "C", "D", "E", "F", "G", "H", "I", "J", "K", "L", "M",
               "N", "O", "P", "Q", "R", "S", "T", "U", "V", "W", "X", "Y", "Z"}
DigitChars == {"0", "1", "2", "3", "4", "5", "6", "7", "8", "9"}

\* String.prototype.includes
Includes(s, pat) ==
    \E i \in 1..(Len(s) - Len(pat) + 1) : SubSeq(s, i, i + Len(pat) - 1) = pat

\* s.split(/\s+/).length: one piece more than there are runs of whitespace
SplitCount(s) ==
    1 + Cardinality({i \in 1..Len(s) : s[i] = " " /\ (i = 1 \/ s[i - 1] # " ")})

\* /^[...]+$/ over a character class
MatchesClass(s, class) == Len(s) >= 1 /\ \A i \in 1..Len(s) : s[i] \in class

Range(s) == {s[i] : i \in 1..Len(s)}

\* [...new Set(s)]: the distinct elements in the order of their first occurrence
RECURSIVE Distinct(_)
Distinct(s) ==
    IF s = <<>> THEN <<>>
    ELSE LET init == Distinct(SubSeq(s, 1, Len(s) - 1))
             last == s[Len(s)]
         IN  IF last \in Range(init) THEN init ELSE Append(init, last)

\* Array.prototype.slice(0, n)
Slice(s, n) == SubSeq(s, 1, IF Len(s) < n THEN Len(s) ELSE n)

Has(item, field) == field \in DOMAIN item

\* item[field] as JavaScript reads it
Get(item, field) == IF Has(item, field) THEN item[field] ELSE Undefined

\* item[field] as JavaScript concatenates it into a string
GetStr(item, field) == IF Has(item, field) THEN item[field] ELSE UndefinedStr

Without(item, fields) == [f \in (DOMAIN item) \ fields |-> item[f]]

-----------------------------------------------------------------------------
(* Issues.  A message is kept as the values the code interpolates into it. *)

NoMsg ==
    [kind |-> "", ctype |-> "", language |-> "", index |-> -1, keyword |-> "",
     field |-> "", ids |-> <<>>, more |-> FALSE, num |-> 0]

Msg(kind, ctype, language, index) ==
    [NoMsg EXCEPT !.kind = kind, !.ctype = ctype, !.language = language, !.index = index]

-----------------------------------------------------------------------------
(* Schema registry: loadSchemas.  Values of the model have the JSON type   *)
(* their schema declares, so the `type` keyword never fails and is left    *)
(* out; every other keyword of the three schemas is evaluated.             *)

supportedLanguages == <<"en", "de", "fr", "es">>
contentTypes == <<"habits", "research", "locales">>

Categories == {"sleep", "productivity", "health", "mindfulness", "nutrition", "exercise"}
Difficulties == {"beginner", "intermediate", "advanced"}
EvidenceLevels == {"systematic_review", "rct", "observational", "case_study"}

NoConstraint ==
    [minLength |-> -1, maxLength |-> -1, pattern |-> "", enum |-> {},
     minimum |-> -1, maximum |-> -1, maxItems |-> -1]

HabitSchema ==
    [required |-> <<"id", "title", "description", "category", "difficulty",
                    "timeMinutes", "language">>,
     order |-> <<"id", "title", "description", "category", "difficulty",
                 "timeMinutes", "language", "researchBacked", "sources">>,
     properties |->
        [id |-> [NoConstraint EXCEPT !.pattern = "id"],
         title |-> [NoConstraint EXCEPT !.minLength = 5, !.maxLength = 100],
         description |-> [NoConstraint EXCEPT !.minLength = 20, !.maxLength = 500],
         category |-> [NoConstraint EXCEPT !.enum = Categories],
         difficulty |-> [NoConstraint EXCEPT !.enum = Difficulties],
         timeMinutes |-> [NoConstraint EXCEPT !.minimum = 1, !.maximum = 180],
         language |-> [NoConstraint EXCEPT !.enum = Range(supportedLanguages)],
         researchBacked |-> NoConstraint,
         sources |-> [NoConstraint EXCEPT !.maxItems = 10]]]

ResearchSchema(y) ==
    [required |-> <<"id", "title", "summary", "authors", "year", "journal",
                    "category", "evidenceLevel", "qualityScore", "language">>,
     order |-> <<"id", "title", "summary", "authors", "year", "journal", "doi",
                 "category", "evidenceLevel", "qualityScore", "language">>,
     properties |->
        [id |-> [NoConstraint EXCEPT !.pattern = "id"],
         title |-> [NoConstraint EXCEPT !.minLength = 10, !.maxLength = 200],
         summary |-> [NoConstraint EXCEPT !.minLength = 50, !.maxLength = 1000],
         authors |-> [NoConstraint EXCEPT !.minLength = 5, !.maxLength = 200],
         year |-> [NoConstraint EXCEPT !.minimum = 1990, !.maximum = y + 1],
         journal |-> [NoConstraint EXCEPT !.minLength = 5, !.maxLength = 100],
         doi |-> [NoConstraint EXCEPT !.pattern = "doi"],
         category |-> [NoConstraint EXCEPT !.enum = Categories],
         evidenceLevel |-> [NoConstraint EXCEPT !.enum = EvidenceLevels],
         qualityScore |-> [NoConstraint EXCEPT !.minimum = 0, !.maximum = 100],
         language |-> [NoConstraint EXCEPT !.enum = Range(supportedLanguages)]]]

\* the value constraint of the locales schema's patternProperties
LocaleValueConstraint == [NoConstraint EXCEPT !.minLength = 1, !.maxLength = 200]

\* the names this.compiledSchemas has: Object.keys(this.schemas)
CompiledSchemaNames == {"habit", "research", "locales"}

\* the fields whose values are strings of characters, arrays, integers
TextFields == {"id", "title", "description", "summary", "authors", "journal", "doi"}
ArrayFields == {"sources"}
IntegerFields == {"timeMinutes", "year", "qualityScore"}

MatchesPattern(s, pattern) ==
    CASE pattern = "id" -> MatchesClass(s, LowerChars \cup DigitChars \cup {"-"})
      [] pattern = "doi" -> Len(s) >= 3 /\ SubSeq(s, 1, 3) = <<"1", "0", ".">>
      [] pattern = "key" ->
            MatchesClass(s, LowerChars \cup UpperChars \cup DigitChars \cup {".", "_", "-"})
      [] OTHER -> TRUE

\* the keywords of constraint c that value v of `field` violates, as ajv lists them
KeywordErrors(field, v, c) ==
    LET text == field \in TextFields
        int == field \in IntegerFields
        arr == field \in ArrayFields
    IN  (IF int /\ c.maximum # -1 /\ v > c.maximum THEN <<"maximum">> ELSE <<>>)
        \o (IF int /\ c.minimum # -1 /\ v < c.minimum THEN <<"minimum">> ELSE <<>>)
        \o (IF text /\ c.maxLength # -1 /\ Len(v) > c.maxLength THEN <<"maxLength">> ELSE <<>>)
        \o (IF text /\ c.minLength # -1 /\ Len(v) < c.minLength THEN <<"minLength">> ELSE <<>>)
        \o (IF text /\ c.pattern # "" /\ ~MatchesPattern(v, c.pattern) THEN <<"pattern">> ELSE <<>>)
        \o (IF arr /\ c.maxItems # -1 /\ Len(v) > c.maxItems THEN <<"maxItems">> ELSE <<>>)
        \o (IF c.enum # {} /\ v \notin c.enum THEN <<"enum">> ELSE <<>>)

Issue(keyword, field) == [keyword |-> keyword, field |-> field]

RECURSIVE RequiredErrors(_, _)
RequiredErrors(required, item) ==
    IF required = <<>> THEN <<>>
    ELSE (IF Has(item, Head(required)) THEN <<>> ELSE <<Issue("required", Head(required))>>)
         \o RequiredErrors(Tail(required), item)

\* the undeclared fields a record of the model may carry
UndeclaredFields == <<"notes", "draft">>

AdditionalErrors(schema, item) ==
    LET extra == SelectSeq(UndeclaredFields,
                           LAMBDA f : Has(item, f) /\ f \notin DOMAIN schema.properties)
    IN  [i \in 1..Len(extra) |-> Issue("additionalProperties", extra[i])]

RECURSIVE PropertyErrors(_, _, _)
PropertyErrors(order, schema, item) ==
    IF order = <<>> THEN <<>>
    ELSE LET f == Head(order)
             kw == IF Has(item, f) THEN KeywordErrors(f, item[f], schema.properties[f])
                   ELSE <<>>
         IN  [i \in 1..Len(kw) |-> Issue(kw[i], f)]
             \o PropertyErrors(Tail(order), schema, item)

\* validate(item) with allErrors: validate.errors (empty when the item is valid)
SchemaErrors(schema, item) ==
    RequiredErrors(schema.required, item)
    \o AdditionalErrors(schema, item)
    \o PropertyErrors(schema.order, schema, item)

\* the locales schema on a map, a sequence of <<key, value>> entries
RECURSIVE LocaleErrors(_)
LocaleErrors(entries) ==
    IF entries = <<>> THEN <<>>
    ELSE LET key == Head(entries)[1]
             value == Head(entries)[2]
             kw == KeywordErrors("title", value, LocaleValueConstraint)
         IN  (IF MatchesPattern(key, "key")
              THEN [i \in 1..Len(kw) |-> [keyword |-> kw[i], key |-> key]]
              ELSE <<[keyword |-> "additionalProperties", key |-> key]>>)
             \o LocaleErrors(Tail(entries))

-----------------------------------------------------------------------------
(* The validator object: errors, warnings and stats, and whether the call  *)
(* in progress has thrown.                                                 *)

NewValidator ==
    [errors |-> <<>>, warnings |-> <<>>,
     stats |-> [filesValidated |-> 0, totalErrors |-> 0, totalWarnings |-> 0],
     threw |-> FALSE]

\* a slip that records the message and leaves the counter alone
addErrorUncounted(v, message) == [v EXCEPT !.errors = Append(@, message)]

addError(v, message) ==
    [v EXCEPT !.errors = Append(@, message), !.stats.totalErrors = @ + 1]

addWarning(v, message) ==
    [v EXCEPT !.warnings = Append(@, message), !.stats.totalWarnings = @ + 1]

Throw(v) == [v EXCEPT !.threw = TRUE]

RECURSIVE addErrors(_, _)
addErrors(v, messages) ==
    IF messages = <<>> THEN v ELSE addErrors(addError(v, Head(messages)), Tail(messages))

\* /^10\.\d{4,}\/[-._;()\/:a-zA-Z0-9]+$/
StrictDoi(s) ==
    \E j \in 7..(Len(s) - 2) :
        /\ SubSeq(s, 1, 3) = <<"1", "0", ".">>
        /\ \A i \in 4..j : s[i] \in DigitChars
        /\ s[j + 1] = "/"
        /\ \A i \in (j + 2)..Len(s) :
              s[i] \in LowerChars \cup UpperChars \cup DigitChars
                        \cup {"-", ".", "_", ";", "(", ")", "/", ":"}

\* a variant whose comparison is off by one (<= for <)
evidenceQualityMapOffByOne ==
    [systematic_review |-> 81, rct |-> 71, observational |-> 61, case_study |-> 41]

evidenceQualityMap ==
    [systematic_review |-> 80, rct |-> 70, observational |-> 60, case_study |-> 40]

validateHabitSpecific(v, habit, language, index) ==
    LET v1 == IF /\ Has(habit, "researchBacked") /\ habit.researchBacked
                 /\ (~Has(habit, "sources") \/ Len(habit.sources) = 0)
              THEN addWarning(v, Msg("no_sources", "habits", language, index))
              ELSE v
        v2 == IF /\ Has(habit, "timeMinutes") /\ habit.timeMinutes > 60
                 /\ Has(habit, "difficulty") /\ habit.difficulty = "beginner"
              THEN addWarning(v1, [Msg("long_duration", "habits", language, index)
                                     EXCEPT !.num = habit.timeMinutes])
              ELSE v1
    IN  IF ~Has(habit, "title") THEN Throw(v2)     \* undefined.length
        ELSE IF Len(habit.title) < 10
             THEN addWarning(v2, [Msg("short_title", "habits", language, index)
                                    EXCEPT !.ids = <<habit.title>>])
             ELSE v2

validateResearchSpecific(v, research, language, index) ==
    LET v1 == IF /\ Has(research, "doi") /\ Len(research.doi) > 0
                 /\ ~StrictDoi(research.doi)
              THEN addWarning(v, [Msg("doi", "research", language, index)
                                    EXCEPT !.ids = <<research.doi>>])
              ELSE v
        v2 == IF /\ Has(research, "evidenceLevel")
                 /\ research.evidenceLevel \in DOMAIN evidenceQualityMap
                 /\ Has(research, "qualityScore")
                 /\ research.qualityScore < evidenceQualityMap[research.evidenceLevel]
              THEN addWarning(v1, [Msg("quality", "research", language, index)
                                     EXCEPT !.num = research.qualityScore,
                                            !.field = research.evidenceLevel])
              ELSE v1
    IN  IF Has(research, "year") /\ research.year < currentYear - 10
        THEN addWarning(v2, [Msg("old", "research", language, index)
                               EXCEPT !.num = research.year])
        ELSE v2

\* this.compiledSchemas[name], for the names it has
CompiledSchema(name) ==
    CASE name = "habit" -> HabitSchema
      [] name = "research" -> ResearchSchema(currentYear)

SchemaMessages(issues, contentType, language, index) ==
    [i \in 1..Len(issues) |->
        [Msg("schema", contentType, language, index)
           EXCEPT !.keyword = issues[i].keyword, !.field = issues[i].field]]

validateContentItem(v, item, contentType, language, index) ==
    IF contentType \notin CompiledSchemaNames
    THEN Throw(v)                       \* validate is not a function
    ELSE
      LET v1 == addErrors(v, SchemaMessages(SchemaErrors(CompiledSchema(contentType), item),
                                            contentType, language, index))
          v2 == IF contentType = "habit"
                THEN validateHabitSpecific(v1, item, language, index)
                ELSE IF contentType = "research"
                     THEN validateResearchSpecific(v1, item, language, index)
                     ELSE v1
      IN  IF v2.threw THEN v2
          ELSE IF Has(item, "language") /\ item.language # "" /\ item.language # language
               THEN addWarning(v2, [Msg("language_mismatch", contentType, language, index)
                                      EXCEPT !.field = item.language])
               ELSE v2

\* content.forEach((item, index) => this.validateContentItem(...)), from item i on
RECURSIVE validateItems(_, _, _, _, _)
validateItems(v, items, i, contentType, language) ==
    IF i > Len(items) \/ v.threw THEN v
    ELSE validateItems(validateContentItem(v, items[i], contentType, language, i - 1),
                       items, i + 1, contentType, language)

LocaleMessages(issues, language) ==
    [i \in 1..Len(issues) |->
        [Msg("schema", "locales", language, -1)
           EXCEPT !.keyword = issues[i].keyword, !.ids = <<issues[i].key>>]]

\* content is the parsed file: kind "array" with items, or "object" with entries
validateContentFile(v, content, contentType, language) ==
    IF contentType = "locales"
    THEN addErrors(v, LocaleMessages(LocaleErrors(content.entries), language))
    ELSE IF content.kind # "array"
         THEN addError(v, Msg("not_array", contentType, language, -1))
         ELSE validateItems(v, content.items, 1, contentType, language)

\* fs.existsSync(filePath), and whether JSON.parse of the file returns
exists(f, type, language) == f[<<type, language>>].kind # "absent"
parses(f, type, language) == f[<<type, language>>].kind \in {"array", "object"}

\* the body of validateContentType's loop for one language
validateContentTypeFile(v, contentType, language) ==
    IF ~exists(fs, contentType, language)
    THEN addWarning(v, Msg("missing_type_file", contentType, language, -1))
    ELSE IF ~parses(fs, contentType, language)
         THEN addError(v, [Msg("invalid_json", contentType, language, -1)
                             EXCEPT !.keyword = "SyntaxError"])
         ELSE LET w == validateContentFile(v, fs[<<contentType, language>>],
                                           contentType, language)
              IN  IF w.threw
                  THEN addError([w EXCEPT !.threw = FALSE],
                                [Msg("invalid_json", contentType, language, -1)
                                   EXCEPT !.keyword = "TypeError"])
                  ELSE [w EXCEPT !.stats.filesValidated = @ + 1]

RECURSIVE validateContentTypeFrom(_, _, _)
validateContentTypeFrom(v, contentType, l) ==
    IF l > Len(supportedLanguages) THEN v
    ELSE validateContentTypeFrom(
             validateContentTypeFile(v, contentType, supportedLanguages[l]),
             contentType, l + 1)

validateContentType(v, contentType) == validateContentTypeFrom(v, contentType, 1)

-----------------------------------------------------------------------------
(* validateContentStructure *)

requiredDirs == <<"habits", "research", "locales", "metadata">>

RECURSIVE checkDirs(_, _)
checkDirs(v, d) ==
    IF d > Len(requiredDirs) THEN v
    ELSE checkDirs(IF requiredDirs[d] \in dirs THEN v
                   ELSE addError(v, [Msg("missing_dir", "", "", -1)
                                       EXCEPT !.field = requiredDirs[d]]),
                   d + 1)

\* the nested loops over contentTypes and supportedLanguages, flattened
RECURSIVE checkFiles(_, _)
checkFiles(v, n) ==
    IF n >= Len(contentTypes) * Len(supportedLanguages) THEN v
    ELSE LET contentType == contentTypes[(n \div Len(supportedLanguages)) + 1]
             language == supportedLanguages[(n % Len(supportedLanguages)) + 1]
         IN  checkFiles(IF exists(fs, contentType, language) THEN v
                        ELSE addWarning(v, Msg("missing_file", contentType, language, -1)),
                        n + 1)

validateContentStructure(v) == checkFiles(checkDirs(v, 1), 0)

-----------------------------------------------------------------------------
(* validateCrossReferences *)

ItemIds(items) == [i \in 1..Len(items) |-> Get(items[i], "id")]

\* the first loop: [ids |-> allResearchIds, threw |-> JSON.parse or forEach threw]
RECURSIVE loadResearchIds(_, _, _)
loadResearchIds(f, acc, l) ==
    IF l > Len(supportedLanguages) \/ acc.threw THEN acc
    ELSE LET language == supportedLanguages[l]
             file == f[<<"research", language>>]
         IN  loadResearchIds(f,
                 IF ~exists(f, "research", language) THEN acc
                 ELSE IF file.kind # "array" THEN [acc EXCEPT !.threw = TRUE]
                      ELSE [acc EXCEPT !.ids = @ \cup Range(ItemIds(file.items))],
                 l + 1)

RECURSIVE checkSources(_, _, _, _, _)
checkSources(v, sources, s, allResearchIds, where) ==
    IF s > Len(sources) THEN v
    ELSE checkSources(IF sources[s] \in allResearchIds THEN v
                      ELSE addWarning(v, [where EXCEPT !.ids = <<sources[s]>>]),
                      sources, s + 1, allResearchIds, where)

RECURSIVE checkHabits(_, _, _, _, _)
checkHabits(v, habits, i, allResearchIds, language) ==
    IF i > Len(habits) THEN v
    ELSE checkHabits(IF Has(habits[i], "sources")
                     THEN checkSources(v, habits[i].sources, 1, allResearchIds,
                                       Msg("unknown_research", "habits", language, i - 1))
                     ELSE v,
                     habits, i + 1, allResearchIds, language)

\* the second loop
RECURSIVE checkHabitSources(_, _, _, _)
checkHabitSources(f, v, allResearchIds, l) ==
    IF l > Len(supportedLanguages) \/ v.threw THEN v
    ELSE LET language == supportedLanguages[l]
             file == f[<<"habits", language>>]
         IN  checkHabitSources(f,
                 IF ~exists(f, "habits", language) THEN v
                 ELSE IF file.kind # "array" THEN Throw(v)
                      ELSE checkHabits(v, file.items, 1, allResearchIds, language),
                 allResearchIds, l + 1)

validateCrossReferences(f, v) ==
    LET all == loadResearchIds(f, [ids |-> {}, threw |-> FALSE], 1)
    IN  IF all.threw THEN Throw(v) ELSE checkHabitSources(f, v, all.ids, 1)

-----------------------------------------------------------------------------
(* loadContentSafely and validateTranslationCompleteness *)

EmptyContent(contentType) ==
    [kind |-> IF contentType = "locales" THEN "object" ELSE "array",
     items |-> <<>>, entries |-> <<>>]

\* a variant that reports an absent file as a failure to load
loadContentSafelyStrict(f, v, contentType, language) ==
    IF exists(f, contentType, language) /\ parses(f, contentType, language)
    THEN [v |-> v, content |-> f[<<contentType, language>>]]
    ELSE [v |-> addError(v, Msg("load_failed", contentType, language, -1)),
          content |-> EmptyContent(contentType)]

\* a fail-fast variant: a file that does not parse makes the call throw
loadContentSafelyFailFast(f, v, contentType, language) ==
    IF exists(f, contentType, language) /\ ~parses(f, contentType, language)
    THEN [v |-> Throw(v), content |-> EmptyContent(contentType)]
    ELSE [v |-> v,
          content |-> IF exists(f, contentType, language)
                      THEN f[<<contentType, language>>]
                      ELSE EmptyContent(contentType)]

\* [v |-> the validator afterwards, content |-> the value returned]
loadContentSafely(f, v, contentType, language) ==
    IF exists(f, contentType, language)
    THEN IF parses(f, contentType, language)
         THEN [v |-> v, content |-> f[<<contentType, language>>]]
         ELSE [v |-> addError(v, Msg("load_failed", contentType, language, -1)),
               content |-> EmptyContent(contentType)]
    ELSE [v |-> v, content |-> EmptyContent(contentType)]

\* new Set(content.map(x => x.id)) or new Set(Object.keys(content)), in order
ContentIds(content, contentType) ==
    IF contentType = "locales"
    THEN [i \in 1..Len(content.entries) |-> content.entries[i][1]]
    ELSE Distinct(ItemIds(content.items))

\* .map on what is not an array throws
CannotMap(content, contentType) == contentType # "locales" /\ content.kind # "array"

otherLanguages == SelectSeq(supportedLanguages, LAMBDA l : l # "en")

\* a variant with the filter inverted: the IDs the language does have
MissingInverted(englishIds, langIds) == SelectSeq(englishIds, LAMBDA id : id \in langIds)

\* [...englishIds].filter(id => !langIds.has(id))
Missing(englishIds, langIds) == SelectSeq(englishIds, LAMBDA id : id \notin langIds)

RECURSIVE compareLanguages(_, _, _, _, _, _)
compareLanguages(f, v, contentType, englishIds, preview, l) ==
    IF l > Len(otherLanguages) \/ v.threw THEN v
    ELSE LET language == otherLanguages[l]
             loaded == loadContentSafely(f, v, contentType, language)
             langIds == Range(ContentIds(loaded.content, contentType))
             missing == Missing(englishIds, langIds)
         IN  compareLanguages(f,
                 IF CannotMap(loaded.content, contentType) THEN Throw(loaded.v)
                 ELSE IF Len(missing) > 0
                      THEN addWarning(loaded.v,
                               [Msg("missing_translation", contentType, language, -1)
                                  EXCEPT !.ids = Slice(missing, preview),
                                         !.more = Len(missing) > preview])
                      ELSE loaded.v,
                 contentType, englishIds, preview, l + 1)

\* one of the three blocks of validateTranslationCompleteness
checkTranslations(f, v, contentType, preview) ==
    IF v.threw THEN v
    ELSE LET english == loadContentSafely(f, v, contentType, "en")
         IN  IF CannotMap(english.content, contentType) THEN Throw(english.v)
             ELSE compareLanguages(f, english.v, contentType,
                                   ContentIds(english.content, contentType), preview, 1)

validateTranslationCompleteness(f, v) ==
    checkTranslations(f, checkTranslations(f, checkTranslations(f, v, "habits", 5),
                                           "research", 3),
                      "locales", 5)

-----------------------------------------------------------------------------
(* validateContentQuality.  q carries the validator with totalWordCount    *)
(* and contentItems.                                                       *)

\* the body of either forEach: text is "description" or "summary"
qualityItem(q, item, contentType, text, minWords) ==
    LET wordCount == SplitCount(GetStr(item, "title") \o <<" ">> \o GetStr(item, text))
        counted == [q EXCEPT !.totalWordCount = @ + wordCount, !.contentItems = @ + 1]
        warned == IF wordCount < minWords
                  THEN [counted EXCEPT !.v = addWarning(@,
                            [Msg("low_word_count", contentType, "", -1)
                               EXCEPT !.ids = <<Get(item, "id")>>, !.num = wordCount])]
                  ELSE counted
    IN  IF ~Has(item, text) THEN [warned EXCEPT !.v = Throw(@)]    \* undefined.includes
        ELSE IF Includes(item[text], TODO) \/ Includes(item[text], Placeholder)
             THEN [warned EXCEPT !.v = addError(@,
                       [Msg("placeholder", contentType, "", -1)
                          EXCEPT !.ids = <<Get(item, "id")>>])]
             ELSE warned

RECURSIVE qualityItems(_, _, _, _, _, _)
qualityItems(q, items, i, contentType, text, minWords) ==
    IF i > Len(items) \/ q.v.threw THEN q
    ELSE qualityItems(qualityItem(q, items[i], contentType, text, minWords),
                      items, i + 1, contentType, text, minWords)

qualityFile(f, q, contentType, language, text, minWords) ==
    IF q.v.threw THEN q
    ELSE LET loaded == loadContentSafely(f, q.v, contentType, language)
         IN  IF loaded.content.kind # "array"
             THEN [q EXCEPT !.v = Throw(loaded.v)]       \* forEach is not a function
             ELSE qualityItems([q EXCEPT !.v = loaded.v], loaded.content.items, 1,
                               contentType, text, minWords)

RECURSIVE qualityLanguages(_, _, _)
qualityLanguages(f, q, l) ==
    IF l > Len(supportedLanguages) \/ q.v.threw THEN q
    ELSE qualityLanguages(f,
             qualityFile(f, qualityFile(f, q, "habits", supportedLanguages[l],
                                        "description", 20),
                         "research", supportedLanguages[l], "summary", 30),
             l + 1)

\* Math.round(totalWordCount / contentItems) < 50; NaN < 50 is false
AverageBelow(totalWordCount, contentItems, limit) ==
    contentItems > 0 /\ 2 * totalWordCount < (2 * limit - 1) * contentItems

validateContentQuality(f, v) ==
    LET q == qualityLanguages(f, [v |-> v, totalWordCount |-> 0, contentItems |-> 0], 1)
    IN  IF q.v.threw THEN q.v
        ELSE IF AverageBelow(q.totalWordCount, q.contentItems, 50)
             THEN addWarning(q.v, Msg("low_average", "", "", -1))
             ELSE q.v

-----------------------------------------------------------------------------
(* generateReport *)

NoReport ==
    [written |-> FALSE, statistics |-> NewValidator.stats, errors |-> <<>>,
     warnings |-> <<>>, passed |-> FALSE]

NoConsole == [errors |-> <<>>, warnings |-> <<>>, more |-> 0]

\* no run came before this one
NoPrevious ==
    [ran |-> FALSE, errors |-> <<>>, warnings |-> <<>>, stats |-> NewValidator.stats,
     console |-> NoConsole, report |-> NoReport, exitCode |-> -1, currentYear |-> 0]

ReportOf(v) ==
    [written |-> TRUE, statistics |-> v.stats, errors |-> v.errors,
     warnings |-> v.warnings, passed |-> Len(v.errors) = 0]

\* a variant whose remainder line states all the warnings, not those left out
ConsoleOfCountingAll(v) ==
    [errors |-> v.errors, warnings |-> Slice(v.warnings, 20),
     more |-> IF Len(v.warnings) > 20 THEN Len(v.warnings) ELSE 0]

ConsoleOf(v) ==
    [errors |-> v.errors, warnings |-> Slice(v.warnings, 20),
     more |-> IF Len(v.warnings) > 20 THEN Len(v.warnings) - 20 ELSE 0]

\* a variant in which warnings fail the run too
ExitStatusAnyIssue(v) == IF Len(v.errors) + Len(v.warnings) > 0 THEN 1 ELSE 0

\* process.exit(this.errors.length > 0 ? 1 : 0)
ExitStatus(v) == IF Len(v.errors) > 0 THEN 1 ELSE 0

-----------------------------------------------------------------------------
(* validateAll: one action per call it makes.  A call that throws leaves   *)
(* the try block: the catch prints the message and exits with status 1.    *)

This == [errors |-> errors, warnings |-> warnings, stats |-> stats, threw |-> FALSE]

\* a validateAll that checks the content quality before the cross-references
NextPhaseQualityFirst(phase) ==
    CASE phase = "structure" -> contentTypes[1]
      [] phase = "habits" -> "research"
      [] phase = "research" -> "locales"
      [] phase = "locales" -> "quality"
      [] phase = "quality" -> "translation"
      [] phase = "translation" -> "crossrefs"
      [] phase = "crossrefs" -> "report"

\* the phase after `phase` in validateAll
NextPhase(phase) ==
    CASE phase = "structure" -> contentTypes[1]
      [] phase = "habits" -> "research"
      [] phase = "research" -> "locales"
      [] phase = "locales" -> "crossrefs"
      [] phase = "crossrefs" -> "translation"
      [] phase = "translation" -> "quality"
      [] phase = "quality" -> "report"

\* a variant in which every phase saves a report of what it found so far
ContinueSavingReport(v) ==
    /\ errors' = v.errors
    /\ warnings' = v.warnings
    /\ stats' = v.stats
    /\ IF v.threw
       THEN pc' = "done" /\ exitCode' = 1
       ELSE pc' = NextPhase(pc) /\ exitCode' = exitCode
    /\ report' = ReportOf(v)
    /\ UNCHANGED <<fs, dirs, console, currentYear, previous>>
    /\ UNCHANGED <<goalVars, testVars>>

\* the state after a call of validateAll's try block returned v
Continue(v) ==
    /\ errors' = v.errors
    /\ warnings' = v.warnings
    /\ stats' = v.stats
    /\ IF v.threw
       THEN pc' = "done" /\ exitCode' = 1
       ELSE pc' = NextPhase(pc) /\ exitCode' = exitCode
    /\ UNCHANGED <<fs, dirs, console, report, currentYear, previous>>
    /\ UNCHANGED <<goalVars, testVars>>

ValidateContentStructure ==
    /\ pc = "structure"
    /\ Continue(validateContentStructure(This))

ValidateContentType ==
    /\ pc \in Range(contentTypes)
    /\ Continue(validateContentType(This, pc))

ValidateCrossReferences ==
    /\ pc = "crossrefs"
    /\ Continue(validateCrossReferences(fs, This))

ValidateTranslationCompleteness ==
    /\ pc = "translation"
    /\ Continue(validateTranslationCompleteness(fs, This))

ValidateContentQuality ==
    /\ pc = "quality"
    /\ Continue(validateContentQuality(fs, This))

GenerateReport ==
    /\ pc = "report"
    /\ console' = ConsoleOf(This)
    /\ report' = ReportOf(This)
    /\ exitCode' = ExitStatus(This)
    /\ pc' = "done"
    /\ UNCHANGED <<fs, dirs, errors, warnings, stats, currentYear, previous>>
    /\ UNCHANGED <<goalVars, testVars>>

Next ==
    \/ ValidateContentStructure
    \/ ValidateContentType
    \/ ValidateCrossReferences
    \/ ValidateTranslationCompleteness
    \/ ValidateContentQuality
    \/ GenerateReport

-----------------------------------------------------------------------------
(* Goal validator: VALIDATION_RULES and file discovery.  Values of a goal  *)
(* habit are non-null and have the JSON type the checks expect when they   *)
(* are present.                                                            *)

requiredFields ==
    <<"id", "title", "description", "category", "difficulty", "timeMinutes",
      "language", "researchBacked", "effectivenessScore", "effectivenessRank",
      "priority", "isPrimaryRecommendation", "goalTags", "instructions",
      "whyEffective", "researchSummary", "sources", "optimalTiming",
      "progressionTips">>

validDifficulties ==
    {"beginner", "intermediate", "advanced", "easy", "moderate", "challenging"}

validCategories == <<"feel_better", "get_moving", "better_sleep">>

maxTimeMinutes == 60
minEffectivenessScore == 0
maxEffectivenessScore == 10

goalLanguages == <<"en", "de", "fr", "es">>

\* goalPatterns, one entry per pattern in the order the loops visit them
goalPatterns ==
    <<[goal |-> "feel_better", pattern |-> "feel_better_habits"],
      [goal |-> "get_moving", pattern |-> "get_moving_habits"],
      [goal |-> "better_sleep", pattern |-> "better_sleep_habit"],
      [goal |-> "better_sleep", pattern |-> "better_sleep_habits"]>>

\* the file names discoverGoalFiles looks for, in the order it looks
candidateFiles ==
    [i \in 1..(Len(goalPatterns) * Len(goalLanguages)) |->
        LET entry == goalPatterns[((i - 1) \div Len(goalLanguages)) + 1]
            lang == goalLanguages[((i - 1) % Len(goalLanguages)) + 1]
        IN  [goal |-> entry.goal, language |-> lang,
             filename |-> <<entry.pattern, lang>>]]

GoalFileNames == {candidateFiles[i].filename : i \in 1..Len(candidateFiles)}

NoFile == <<"", "">>

\* a line of console.error or console.warn, kept as the values in it
GoalMsg(level, kind, filename, ids, detail) ==
    [level |-> level, kind |-> kind, filename |-> filename, ids |-> ids,
     detail |-> detail]

\* the outcome of a function: what it returned or the error it threw
Returned(value) == [threw |-> FALSE, value |-> value, error |-> <<>>]
Thrown(kind, category, filename, ids, detail) ==
    [threw |-> TRUE, value |-> <<>>,
     error |-> <<[kind |-> kind, category |-> category, filename |-> filename,
                  ids |-> ids, detail |-> detail]>>]

discoverGoalFiles(dir, files) ==
    IF ~dir THEN Thrown("no_content_dir", "structure", NoFile, <<>>, <<>>)
    ELSE LET found == SelectSeq(candidateFiles,
                                LAMBDA c : files[c.filename].kind # "absent")
         IN  IF Len(found) = 0
             THEN Thrown("none_discovered", "discovery", NoFile, <<>>, <<>>)
             ELSE Returned(found)

-----------------------------------------------------------------------------
(* Goal validator: validateHabitStructure and validateGoalFile *)

Finding(kind, field) == [kind |-> kind, field |-> field]

\* a JavaScript number used as a condition
Truthy(habit, field) == Has(habit, field) /\ habit[field] # 0

OutOfRange(habit, field, low, high) ==
    Truthy(habit, field) /\ (habit[field] < low \/ habit[field] > high)

EmptyOrNoArray(habit, field) == ~Has(habit, field) \/ Len(habit[field]) = 0

\* the errors validateHabitStructure collects, in the order it adds them
habitStructureErrors(habit) ==
    SelectSeq([i \in 1..Len(requiredFields) |-> Finding("missing", requiredFields[i])],
              LAMBDA e : ~Has(habit, e.field))
    \o (IF Has(habit, "difficulty") /\ habit.difficulty # ""
           /\ habit.difficulty \notin validDifficulties
        THEN <<Finding("invalid", "difficulty")>> ELSE <<>>)
    \o (IF Has(habit, "category") /\ habit.category # ""
           /\ habit.category \notin Range(validCategories)
        THEN <<Finding("invalid", "category")>> ELSE <<>>)
    \o (IF OutOfRange(habit, "timeMinutes", 1, maxTimeMinutes)
        THEN <<Finding("invalid", "timeMinutes")>> ELSE <<>>)
    \o (IF OutOfRange(habit, "effectivenessScore",
                      minEffectivenessScore, maxEffectivenessScore)
        THEN <<Finding("invalid", "effectivenessScore")>> ELSE <<>>)
    \o (IF OutOfRange(habit, "priority", 1, 100)
        THEN <<Finding("invalid", "priority")>> ELSE <<>>)
    \o (IF ~Has(habit, "isPrimaryRecommendation")
        THEN <<Finding("not_boolean", "isPrimaryRecommendation")>> ELSE <<>>)
    \o (IF EmptyOrNoArray(habit, "goalTags")
        THEN <<Finding("empty_array", "goalTags")>> ELSE <<>>)
    \o (IF EmptyOrNoArray(habit, "instructions")
        THEN <<Finding("empty_array", "instructions")>> ELSE <<>>)
    \o (IF EmptyOrNoArray(habit, "sources")
        THEN <<Finding("empty_array", "sources")>> ELSE <<>>)
    \o (IF EmptyOrNoArray(habit, "progressionTips")
        THEN <<Finding("empty_array", "progressionTips")>> ELSE <<>>)

validateHabitStructure(habit, filename) ==
    LET found == habitStructureErrors(habit)
    IN  IF Len(found) > 0
        THEN Thrown("habit", "validation", filename, <<Get(habit, "id")>>, found)
        ELSE Returned(<<>>)

\* the first habit validateHabitStructure throws for, 0 when there is none
FirstInvalid(habits, filename) ==
    LET bad == {i \in 1..Len(habits) : validateHabitStructure(habits[i], filename).threw}
    IN  IF bad = {} THEN 0 ELSE CHOOSE i \in bad : \A j \in bad : i <= j

\* a slip that keeps every priority, so the two lengths never differ
uniquePrioritiesUnfiltered(priorities) == priorities

\* [...new Set(priorities)]
uniquePriorities(priorities) == Distinct(priorities)

\* habits.filter(h => h.category !== expectedCategory)
invalidCategories(habits, expectedCategory) ==
    SelectSeq(habits, LAMBDA h : h.category # expectedCategory)

\* a slip that looks at the first habit of the file only
invalidLanguagesFirstOnly(habits, language) ==
    SelectSeq(SubSeq(habits, 1, 1), LAMBDA h : h.language # language)

\* habits.filter(h => h.language !== fileInfo.language)
invalidLanguages(habits, language) ==
    SelectSeq(habits, LAMBDA h : h.language # language)

\* what validateGoalFile returns for a file it accepts
GoalFileResult(fileInfo, habits, priorities, primaryCount) ==
    [file |-> fileInfo.filename, goal |-> fileInfo.goal,
     language |-> fileInfo.language, habitCount |-> Len(habits),
     primaryCount |-> primaryCount,
     priorityRange |-> <<priorities[1], priorities[Len(priorities)]>>,
     habits |-> [i \in 1..Len(habits) |->
                    [id |-> habits[i].id, title |-> habits[i].title,
                     priority |-> habits[i].priority,
                     isPrimary |-> habits[i].isPrimaryRecommendation,
                     effectiveness |-> habits[i].effectivenessScore]]]

\* validateGoalFile: the outcome and the warnings it printed
validateGoalFile(files, fileInfo) ==
    LET file == files[fileInfo.filename]
        name == fileInfo.filename
        habits == file.items
        invalid == FirstInvalid(habits, name)
        priorities == SortSeq([i \in 1..Len(habits) |-> habits[i].priority],
                              LAMBDA a, b : a < b)
        primaryCount == Cardinality({i \in 1..Len(habits) :
                                        habits[i].isPrimaryRecommendation})
        wrongCategory == invalidCategories(habits, fileInfo.goal)
        wrongLanguage == invalidLanguages(habits, fileInfo.language)
        noPrimary == IF primaryCount = 0
                     THEN <<GoalMsg("warn", "no_primary", name, <<>>, <<>>)>>
                     ELSE <<>>
    IN  IF file.kind = "badjson"
        THEN [out |-> Thrown("invalid_json", "validation", name, <<>>, <<>>),
              warned |-> <<>>]
        ELSE IF file.kind # "array"
        THEN [out |-> Thrown("not_array", "validation", name, <<>>, <<>>),
              warned |-> <<>>]
        ELSE IF Len(habits) = 0
        THEN [out |-> Thrown("empty", "validation", name, <<>>, <<>>),
              warned |-> <<>>]
        ELSE IF invalid # 0
        THEN [out |-> validateHabitStructure(habits[invalid], name), warned |-> <<>>]
        ELSE IF Len(priorities) # Len(uniquePriorities(priorities))
        THEN [out |-> Thrown("duplicate_priorities", "validation", name, <<>>,
                             priorities),
              warned |-> <<>>]
        ELSE IF Len(wrongCategory) > 0
        THEN [out |-> Thrown("wrong_category", "validation", name,
                             [i \in 1..Len(wrongCategory) |-> wrongCategory[i].id],
                             <<>>),
              warned |-> noPrimary]
        ELSE IF Len(wrongLanguage) > 0
        THEN [out |-> Thrown("wrong_language", "validation", name,
                             [i \in 1..Len(wrongLanguage) |-> wrongLanguage[i].id],
                             <<>>),
              warned |-> noPrimary]
        ELSE [out |-> Returned(GoalFileResult(fileInfo, habits, priorities,
                                              primaryCount)),
              warned |-> noPrimary]

-----------------------------------------------------------------------------
(* Goal validator: cross-file consistency, API compatibility, report *)

\* the ids of all habits of the validated files, in the order the loops visit them
RECURSIVE AllHabitIds(_)
AllHabitIds(validated) ==
    IF validated = <<>> THEN <<>>
    ELSE LET file == validated[Len(validated)]
         IN  AllHabitIds(SubSeq(validated, 1, Len(validated) - 1))
             \o [i \in 1..Len(file.habits) |-> file.habits[i].id]

\* `duplicates`: an id is pushed each time it is met after its first occurrence
Duplicates(ids) ==
    LET again == SelectSeq([i \in 1..Len(ids) |-> i],
                           LAMBDA i : \E j \in 1..(i - 1) : ids[j] = ids[i])
    IN  [k \in 1..Len(again) |-> ids[again[k]]]

\* goalCoverage[goal]: the languages of the validated files of the goal
GoalCoverage(validated, goal) ==
    LET files == SelectSeq(validated, LAMBDA file : file.goal = goal)
    IN  [i \in 1..Len(files) |-> files[i].language]

\* a variant that looks for repeated ids among the files of one language only
validateCrossFileConsistencyPerLanguage(validated) ==
    LET within(language) ==
            Duplicates(AllHabitIds(SelectSeq(validated,
                                             LAMBDA file : file.language = language)))
        duplicates == within("en") \o within("de") \o within("fr") \o within("es")
        uncovered == SelectSeq(validCategories,
                               LAMBDA goal : "en" \notin Range(GoalCoverage(validated, goal)))
    IN  IF Len(duplicates) > 0
        THEN [out |-> Thrown("duplicate_ids", "validation", NoFile, duplicates, <<>>),
              warned |-> <<>>]
        ELSE [out |-> Returned(<<>>),
              warned |-> [i \in 1..Len(uncovered) |->
                            GoalMsg("warn", "missing_english", NoFile, <<>>,
                                    <<uncovered[i]>>)]]

\* validateCrossFileConsistency: the outcome and the warnings it printed
validateCrossFileConsistency(validated) ==
    LET duplicates == Duplicates(AllHabitIds(validated))
        uncovered == SelectSeq(validCategories,
                               LAMBDA goal : "en" \notin Range(GoalCoverage(validated, goal)))
    IN  IF Len(duplicates) > 0
        THEN [out |-> Thrown("duplicate_ids", "validation", NoFile, duplicates, <<>>),
              warned |-> <<>>]
        ELSE [out |-> Returned(<<>>),
              warned |-> [i \in 1..Len(uncovered) |->
                            GoalMsg("warn", "missing_english", NoFile, <<>>,
                                    <<uncovered[i]>>)]]

\* what a request to the API server can come to
ApiResponses == {"habits", "empty", "not_ok", "unreachable"}

\* validateApiCompatibility: the warnings it printed, responses[i] being the
\* server's answer for the i-th validated file
validateApiCompatibility(validated, responses) ==
    LET silent == SelectSeq([i \in 1..Len(validated) |-> i],
                            LAMBDA i : responses[i] # "habits")
    IN  [k \in 1..Len(silent) |->
            GoalMsg("warn", responses[silent[k]], validated[silent[k]].file,
                    <<>>, <<>>)]

RECURSIVE Sum(_)
Sum(s) == IF s = <<>> THEN 0 ELSE s[1] + Sum(Tail(s))

NoGoalReport ==
    [written |-> FALSE, totalFiles |-> 0, totalHabits |-> 0, totalPrimary |-> 0,
     goalCoverage |-> <<>>, files |-> <<>>]

\* the report generateValidationReport saves; goalCoverage holds byGoal, the
\* validated files grouped by goal
generateValidationReport(validated) ==
    [written |-> TRUE,
     totalFiles |-> Len(validated),
     totalHabits |-> Sum([i \in 1..Len(validated) |-> validated[i].habitCount]),
     totalPrimary |-> Sum([i \in 1..Len(validated) |-> validated[i].primaryCount]),
     goalCoverage |->
        [goal \in {validated[i].goal : i \in 1..Len(validated)} |->
            SelectSeq(validated, LAMBDA file : file.goal = goal)],
     files |-> validated]

-----------------------------------------------------------------------------
(* Goal validator: main, one action per step.  An error that reaches the   *)
(* outer catch is printed as "Validation failed" and the process exits     *)
(* with status 1.                                                          *)

Failed(error) ==
    GoalMsg("failed", error.kind, error.filename, error.ids, error.detail)

Rejected(error) ==
    GoalMsg("error", error.kind, error.filename, error.ids, error.detail)

\* main's outer catch
GoalAbort(message) ==
    /\ goalConsole' = Append(goalConsole, message)
    /\ goalStatus' = 1
    /\ goalPc' = "done"

DiscoverGoalFiles ==
    /\ goalPc = "discover"
    /\ LET found == discoverGoalFiles(goalDir, goalFiles)
       IN  IF found.threw
           THEN /\ GoalAbort(Failed(found.error[1]))
                /\ UNCHANGED <<discoveredFiles, cursor>>
           ELSE /\ discoveredFiles' = found.value
                /\ cursor' = 1
                /\ goalPc' = "validate"
                /\ UNCHANGED <<goalConsole, goalStatus>>
    /\ UNCHANGED <<goalDir, goalFiles, validatedFiles, goalExitCode, goalReport>>
    /\ UNCHANGED <<mainVars, testVars>>

\* a loop without its own try and catch: the error of a file reaches main's
\* outer catch and ends the run
ValidateGoalFileFailFast ==
    /\ goalPc = "validate"
    /\ LET result == validateGoalFile(goalFiles, discoveredFiles[cursor])
       IN  IF result.out.threw
           THEN /\ GoalAbort(Failed(result.out.error[1]))
                /\ UNCHANGED <<validatedFiles, cursor>>
           ELSE /\ goalConsole' = goalConsole \o result.warned
                /\ validatedFiles' = Append(validatedFiles, result.out.value)
                /\ cursor' = cursor + 1
                /\ goalPc' = IF cursor = Len(discoveredFiles) THEN "crossfile"
                             ELSE "validate"
                /\ UNCHANGED goalStatus
    /\ UNCHANGED <<goalDir, goalFiles, discoveredFiles, goalExitCode, goalReport>>
    /\ UNCHANGED <<mainVars, testVars>>

\* a loop that counts a printed warning as a failure of the file's run
ValidateGoalFileStrict ==
    /\ goalPc = "validate"
    /\ LET result == validateGoalFile(goalFiles, discoveredFiles[cursor])
       IN  IF result.out.threw
           THEN /\ goalConsole' = goalConsole \o result.warned
                                      \o <<Rejected(result.out.error[1])>>
                /\ goalExitCode' = 1
                /\ UNCHANGED validatedFiles
           ELSE /\ goalConsole' = goalConsole \o result.warned
                /\ validatedFiles' = Append(validatedFiles, result.out.value)
                /\ goalExitCode' = IF Len(result.warned) > 0 THEN 1 ELSE goalExitCode
    /\ cursor' = cursor + 1
    /\ goalPc' = IF cursor = Len(discoveredFiles) THEN "crossfile" ELSE "validate"
    /\ UNCHANGED <<goalDir, goalFiles, discoveredFiles, goalReport, goalStatus>>
    /\ UNCHANGED <<mainVars, testVars>>

\* one iteration of main's loop over discoveredFiles
ValidateGoalFile ==
    /\ goalPc = "validate"
    /\ LET result == validateGoalFile(goalFiles, discoveredFiles[cursor])
       IN  IF result.out.threw
           THEN /\ goalConsole' = goalConsole \o result.warned
                                      \o <<Rejected(result.out.error[1])>>
                /\ goalExitCode' = 1
                /\ UNCHANGED validatedFiles
           ELSE /\ goalConsole' = goalConsole \o result.warned
                /\ validatedFiles' = Append(validatedFiles, result.out.value)
                /\ UNCHANGED goalExitCode
    /\ cursor' = cursor + 1
    /\ goalPc' = IF cursor = Len(discoveredFiles) THEN "crossfile" ELSE "validate"
    /\ UNCHANGED <<goalDir, goalFiles, discoveredFiles, goalReport, goalStatus>>
    /\ UNCHANGED <<mainVars, testVars>>

\* main after the loop: no validated file ends the run, else cross-file validation
ValidateCrossFileConsistency ==
    /\ goalPc = "crossfile"
    /\ IF Len(validatedFiles) = 0
       THEN GoalAbort(GoalMsg("error", "none_passed", NoFile, <<>>, <<>>))
       ELSE LET result == validateCrossFileConsistency(validatedFiles)
            IN  IF result.out.threw
                THEN GoalAbort(Failed(result.out.error[1]))
                ELSE /\ goalConsole' = goalConsole \o result.warned
                     /\ goalPc' = "api"
                     /\ UNCHANGED goalStatus
    /\ UNCHANGED <<goalDir, goalFiles, discoveredFiles, cursor, validatedFiles,
                   goalExitCode, goalReport>>
    /\ UNCHANGED <<mainVars, testVars>>

ValidateApiCompatibility ==
    /\ goalPc = "api"
    /\ \E responses \in [1..Len(validatedFiles) -> ApiResponses] :
          goalConsole' = goalConsole \o validateApiCompatibility(validatedFiles, responses)
    /\ goalPc' = "report"
    /\ UNCHANGED <<goalDir, goalFiles, discoveredFiles, cursor, validatedFiles,
                   goalExitCode, goalReport, goalStatus>>
    /\ UNCHANGED <<mainVars, testVars>>

\* generateValidationReport, then process.exit(exitCode)
GenerateValidationReport ==
    /\ goalPc = "report"
    /\ goalReport' = generateValidationReport(validatedFiles)
    /\ goalStatus' = goalExitCode
    /\ goalPc' = "done"
    /\ UNCHANGED <<goalDir, goalFiles, discoveredFiles, cursor, validatedFiles,
                   goalExitCode, goalConsole>>
    /\ UNCHANGED <<mainVars, testVars>>

GoalNext ==
    \/ DiscoverGoalFiles
    \/ ValidateGoalFile
    \/ ValidateCrossFileConsistency
    \/ ValidateApiCompatibility
    \/ GenerateValidationReport

-----------------------------------------------------------------------------
(* Test validator: configuration and validateSingleHabit.  REQUIRED_FILES  *)
(* are named by their language.  Values of a habit are non-null and have   *)
(* the JSON type the checks expect when they are present.                  *)

REQUIRED_FILES == <<"en", "de">>

REQUIRED_HABIT_FIELDS ==
    <<"id", "title", "description", "category", "difficulty", "timeMinutes",
      "language", "researchBacked", "effectivenessScore", "effectivenessRank",
      "isPrimaryRecommendation", "goalTags", "instructions", "whyEffective",
      "researchSummary", "sources", "optimalTiming", "progressionTips">>

VALID_CATEGORIES == <<"better_sleep", "get_moving", "feel_better">>

VALID_DIFFICULTIES ==
    {"trivial", "easy", "moderate", "intermediate", "advanced", "beginner"}

VALID_DIFFICULTIES_DE ==
    {"Anfänger", "Einfach", "Mittelstufe", "Fortgeschritten", "Experte"}

MIN_HABITS_PER_CATEGORY == 2

\* an entry of this.errors or this.warnings, kept as the values in it
TestMsg(kind, file, index, field, ids) ==
    [kind |-> kind, file |-> file, index |-> index, field |-> field, ids |-> ids]

\* new ContentValidator() of the test validator
NewTestValidator ==
    [errors |-> <<>>, warnings |-> <<>>,
     stats |-> [totalHabits |-> 0,
                categoryCounts |-> [c \in {} |-> 0],
                languageCounts |-> [l \in {} |-> 0]],
     threw |-> FALSE]

pushError(t, message) == [t EXCEPT !.errors = Append(@, message)]

pushWarning(t, message) == [t EXCEPT !.warnings = Append(@, message)]

RECURSIVE pushErrors(_, _)
pushErrors(t, messages) ==
    IF messages = <<>> THEN t
    ELSE pushErrors(pushError(t, Head(messages)), Tail(messages))

\* counts[key] || 0
CountOf(counts, key) == IF key \in DOMAIN counts THEN counts[key] ELSE 0

\* counts[key] = value
SetCount(counts, key, value) ==
    [k \in DOMAIN counts \cup {key} |-> IF k = key THEN value ELSE counts[k]]

\* the errors validateSingleHabit pushes, in the order it pushes them
singleHabitErrors(habit, index, file, language) ==
    LET Finds(kind, field) == TestMsg(kind, file, index, field, <<Get(habit, "id")>>)
    IN  SelectSeq([i \in 1..Len(REQUIRED_HABIT_FIELDS) |->
                      Finds("missing_field", REQUIRED_HABIT_FIELDS[i])],
                  LAMBDA e : ~Has(habit, e.field))
        \o (IF Has(habit, "category") /\ habit.category # ""
               /\ habit.category \notin Range(VALID_CATEGORIES)
            THEN <<Finds("invalid", "category")>> ELSE <<>>)
        \o (IF Has(habit, "difficulty") /\ habit.difficulty # ""
               /\ habit.difficulty \notin (IF language = "de" THEN VALID_DIFFICULTIES_DE
                                           ELSE VALID_DIFFICULTIES)
            THEN <<Finds("invalid", "difficulty")>> ELSE <<>>)
        \o (IF Has(habit, "language") /\ habit.language # ""
               /\ habit.language # language
            THEN <<Finds("language_mismatch", "language")>> ELSE <<>>)
        \o (IF OutOfRange(habit, "effectivenessScore", 0, 10)
            THEN <<Finds("invalid", "effectivenessScore")>> ELSE <<>>)
        \o (IF Truthy(habit, "timeMinutes") /\ habit.timeMinutes < 0
            THEN <<Finds("invalid", "timeMinutes")>> ELSE <<>>)

\* a slip that counts the categories of each file on its own: the count
\* starts again at the first habit of a file
validateSingleHabitPerFile(t, habit, index, file, language) ==
    LET found == pushErrors(t, singleHabitErrors(habit, index, file, language))
    IN  IF Has(habit, "category") /\ habit.category # ""
        THEN [found EXCEPT !.stats.categoryCounts =
                 SetCount(@, habit.category,
                          IF index = 0 THEN 1 ELSE CountOf(@, habit.category) + 1)]
        ELSE found

validateSingleHabit(t, habit, index, file, language) ==
    LET found == pushErrors(t, singleHabitErrors(habit, index, file, language))
    IN  IF Has(habit, "category") /\ habit.category # ""
        THEN [found EXCEPT !.stats.categoryCounts =
                 SetCount(@, habit.category, CountOf(@, habit.category) + 1)]
        ELSE found

RECURSIVE validateHabits(_, _, _, _)
validateHabits(t, habits, i, file) ==
    IF i > Len(habits) THEN t
    ELSE validateHabits(validateSingleHabit(t, habits[i], i - 1, file, file),
                        habits, i + 1, file)

-----------------------------------------------------------------------------
(* Test validator: the four tests *)

\* the two loops of validateFileStructure
validateFileStructure(t, files) ==
    LET missing == SelectSeq(REQUIRED_FILES, LAMBDA file : files[file].kind = "absent")
        broken == SelectSeq(REQUIRED_FILES,
                            LAMBDA file : files[file].kind \in {"badjson", "object"})
    IN  pushErrors(pushErrors(t, [i \in 1..Len(missing) |->
                                    TestMsg("missing_required_file", missing[i], -1,
                                            "", <<>>)]),
                   [i \in 1..Len(broken) |->
                       TestMsg(IF files[broken[i]].kind = "badjson"
                               THEN "invalid_json" ELSE "not_array",
                               broken[i], -1, "", <<>>)])

\* validateHabitData from the n-th required file on; JSON.parse of a file
\* that is no JSON and forEach of what is no array throw
RECURSIVE validateHabitData(_, _, _)
validateHabitData(t, files, n) ==
    IF n > Len(REQUIRED_FILES) \/ t.threw THEN t
    ELSE LET file == REQUIRED_FILES[n]
             habits == files[file].items
         IN  validateHabitData(
                 IF files[file].kind = "absent" THEN t
                 ELSE IF files[file].kind # "array" THEN Throw(t)
                 ELSE validateHabits(
                          [t EXCEPT !.stats.totalHabits = @ + Len(habits),
                                    !.stats.languageCounts = SetCount(@, file, Len(habits))],
                          habits, 1, file),
                 files, n + 1)

\* the ids checkDuplicateIds collects in fileDuplicates, in insertion order
FileDuplicates(habits) ==
    LET ids == ItemIds(SelectSeq(habits, LAMBDA habit : Has(habit, "id")))
    IN  Distinct(Duplicates(ids))

\* the first loop of checkDuplicateIds, from the n-th required file on
RECURSIVE checkFileDuplicates(_, _, _)
checkFileDuplicates(t, files, n) ==
    IF n > Len(REQUIRED_FILES) \/ t.threw THEN t
    ELSE LET file == REQUIRED_FILES[n]
             duplicated == FileDuplicates(files[file].items)
         IN  checkFileDuplicates(
                 IF files[file].kind = "absent" THEN t
                 ELSE IF files[file].kind # "array" THEN Throw(t)
                 ELSE IF Len(duplicated) > 0
                      THEN pushError(t, TestMsg("duplicate_ids", file, -1, "", duplicated))
                      ELSE t,
                 files, n + 1)

\* [...a].filter(id => !b.has(id)) over the ids of two files
MissingIn(from, other) ==
    SelectSeq(Distinct(ItemIds(from)), LAMBDA id : id \notin Range(ItemIds(other)))

\* a variant that looks for missing German translations only
checkMatchingIdsOneWay(t, files) ==
    IF files["en"].kind = "absent" \/ files["de"].kind = "absent" THEN t
    ELSE IF files["en"].kind # "array" \/ files["de"].kind # "array" THEN Throw(t)
    ELSE LET missingInDe == MissingIn(files["en"].items, files["de"].items)
         IN  IF Len(missingInDe) > 0
             THEN pushError(t, TestMsg("missing_german", "de", -1, "", missingInDe))
             ELSE t

\* the second half of checkDuplicateIds: EN and DE must have matching ids
checkMatchingIds(t, files) ==
    IF files["en"].kind = "absent" \/ files["de"].kind = "absent" THEN t
    ELSE IF files["en"].kind # "array" \/ files["de"].kind # "array" THEN Throw(t)
    ELSE LET missingInDe == MissingIn(files["en"].items, files["de"].items)
             missingInEn == MissingIn(files["de"].items, files["en"].items)
             t1 == IF Len(missingInDe) > 0
                   THEN pushError(t, TestMsg("missing_german", "de", -1, "", missingInDe))
                   ELSE t
         IN  IF Len(missingInEn) > 0
             THEN pushError(t1, TestMsg("missing_english", "en", -1, "", missingInEn))
             ELSE t1

checkDuplicateIds(t, files) ==
    LET t1 == checkFileDuplicates(t, files, 1)
    IN  IF t1.threw THEN t1 ELSE checkMatchingIds(t1, files)

validateBusinessRules(t, files) ==
    LET few == SelectSeq(VALID_CATEGORIES,
                         LAMBDA category : CountOf(t.stats.categoryCounts, category)
                                              < MIN_HABITS_PER_CATEGORY)
        t1 == pushErrors(t, [i \in 1..Len(few) |->
                                TestMsg("too_few_habits", "", -1, few[i], <<>>)])
        enCount == CountOf(t1.stats.languageCounts, "en")
        deCount == CountOf(t1.stats.languageCounts, "de")
        t2 == IF enCount # deCount
              THEN pushWarning(t1, TestMsg("count_mismatch", "", -1, "", <<enCount, deCount>>))
              ELSE t1
    IN  checkDuplicateIds(t2, files)

\* validateCompatibility: the conversion of well-formed habits never throws
validateCompatibility(t, files) ==
    IF files["en"].kind = "absent"
    THEN pushError(t, TestMsg("no_english_file", "en", -1, "", <<>>))
    ELSE IF files["en"].kind = "badjson" THEN Throw(t)
    ELSE IF files["en"].kind # "array"
    THEN pushError(t, TestMsg("compatibility_failed", "en", -1, "", <<>>))
    ELSE LET none == SelectSeq(VALID_CATEGORIES,
                               LAMBDA category :
                                  \A i \in 1..Len(files["en"].items) :
                                     Get(files["en"].items[i], "category") # category)
         IN  pushErrors(t, [i \in 1..Len(none) |->
                               TestMsg("no_habits_for_goal", "en", -1, none[i], <<>>)])

-----------------------------------------------------------------------------
(* Test validator: validateAll, one action per test.  An exception that    *)
(* leaves a test is caught by validateAll, which exits with status 1.      *)

TestThis ==
    [errors |-> testErrors, warnings |-> testWarnings, stats |-> testStats,
     threw |-> FALSE]

\* the state after a test of validateAll's try block returned t
TestContinue(t, next) ==
    /\ testErrors' = t.errors
    /\ testWarnings' = t.warnings
    /\ testStats' = t.stats
    /\ IF t.threw
       THEN testPc' = "done" /\ testStatus' = 1
       ELSE testPc' = next /\ testStatus' = testStatus
    /\ UNCHANGED testFiles
    /\ UNCHANGED <<mainVars, goalVars>>

ValidateFileStructure ==
    /\ testPc = "structure"
    /\ TestContinue(validateFileStructure(TestThis, testFiles), "data")

ValidateHabitData ==
    /\ testPc = "data"
    /\ TestContinue(validateHabitData(TestThis, testFiles, 1), "rules")

ValidateBusinessRules ==
    /\ testPc = "rules"
    /\ TestContinue(validateBusinessRules(TestThis, testFiles), "compatibility")

ValidateCompatibility ==
    /\ testPc = "compatibility"
    /\ TestContinue(validateCompatibility(TestThis, testFiles), "report")

\* generateReport prints what was found; validateAll then exits
TestExit ==
    /\ testPc = "report"
    /\ testStatus' = IF Len(testErrors) > 0 THEN 1 ELSE 0
    /\ testPc' = "done"
    /\ UNCHANGED <<testFiles, testErrors, testWarnings, testStats>>
    /\ UNCHANGED <<mainVars, goalVars>>

TestNext ==
    \/ ValidateFileStructure
    \/ ValidateHabitData
    \/ ValidateBusinessRules
    \/ ValidateCompatibility
    \/ TestExit

-----------------------------------------------------------------------------
(* Content the runs are checked on *)

Habit(id, language) ==
    [id |-> id, title |-> Words(2, 5), description |-> Words(4, 5),
     category |-> "sleep", difficulty |-> "beginner", timeMinutes |-> 10,
     language |-> language, researchBacked |-> FALSE, sources |-> <<>>]

Research(id, language) ==
    [id |-> id, title |-> Words(2, 5), summary |-> Words(9, 5),
     authors |-> Words(1, 6), year |-> currentYear - 2, journal |-> Words(1, 7),
     category |-> "sleep", evidenceLevel |-> "rct", qualityScore |-> 75,
     language |-> language]

Absent == [kind |-> "absent", items |-> <<>>, entries |-> <<>>]
BadJson == [kind |-> "badjson", items |-> <<>>, entries |-> <<>>]
Array(items) == [kind |-> "array", items |-> items, entries |-> <<>>]
Object(entries) == [kind |-> "object", items |-> <<>>, entries |-> entries]

Digits == <<"0", "1", "2", "3", "4", "5", "6", "7", "8", "9">>
NumId(prefix, n) == <<prefix, Digits[n + 1]>>

H(n, language) == Habit(NumId("h", n), language)
R(n, language) == Research(NumId("r", n), language)

\* the most records a file of the checked content holds
MaxItems == 6

\* the most content files present in one checked run
MaxFiles == 2

OtherLanguage(language) == IF language = "en" THEN "de" ELSE "en"

HabitFiles(language) ==
    <<BadJson, Object(<<>>), Array(<<>>),
     Array(<<H(1, language)>>),
     Array(<<H(1, language), H(2, language)>>),
     Array(<<H(1, language), H(2, language), H(3, language)>>),
     Array(<<H(1, language), H(1, language)>>),
     Array(<<[H(1, language) EXCEPT !.description = Words(4, 5) \o <<" ">> \o TODO]>>),
     Array(<<Without(H(1, language), {"description"}), 
             [H(2, language) EXCEPT !.description = Placeholder \o Words(3, 5)]>>),
     Array(<<[H(1, language) EXCEPT !.language = OtherLanguage(language)]>>),
     Array(<<[H(1, language) EXCEPT !.sources = <<NumId("r", 1), NumId("r", 2)>>,
                                    !.researchBacked = TRUE]>>),
     Array(<<[H(1, language) EXCEPT !.researchBacked = TRUE],
             Without([H(2, language) EXCEPT !.researchBacked = TRUE], {"sources"})>>),
     Array([i \in 1..MaxItems |-> H(i, language)])>>

ResearchFiles(language) ==
    <<BadJson, Object(<<>>), Array(<<>>),
     Array(<<R(1, language)>>),
     Array(<<R(1, language), R(2, language)>>),
     Array(<<R(2, language), R(2, language)>>),
     Array(<<[R(1, language) EXCEPT !.summary = TODO \o <<" ">> \o Words(9, 5)]>>),
     Array(<<Without(R(1, language), {"summary"}),
             [R(2, language) EXCEPT !.summary = Words(9, 5) \o Placeholder]>>),
     Array(<<[R(1, language) EXCEPT !.qualityScore = 65]>>),
     Array(<<Without(R(1, language), {"authors", "journal"})>>),
     Array(<<[R(1, language) EXCEPT !.language = OtherLanguage(language),
                                    !.year = currentYear - 11]>>),
     Array([i \in 1..MaxItems |-> R(i, language)])>>

Value == Words(2, 4)

LocaleFiles(language) ==
    <<BadJson, Object(<<>>),
     Object(<<<<NumId("k", 1), Value>>>>),
     Object(<<<<NumId("k", 1), Value>>, <<NumId("k", 2), Value>>>>),
     Object(<<<<NumId("k", 1), <<>>>>, <<<<"k", " ">>, Value>>>>),
     Object([i \in 1..MaxItems |-> <<NumId("k", i), Value>>])>>

Files(contentType, language) ==
    CASE contentType = "habits" -> HabitFiles(language)
      [] contentType = "research" -> ResearchFiles(language)
      [] contentType = "locales" -> LocaleFiles(language)

Paths == Range(contentTypes) \X Range(supportedLanguages)

\* the directories the files in `present` lie in
NeededDirs(present) == {p[1] : p \in present}

\* the test validator while another validator runs
TestIdle ==
    /\ testFiles = [file \in Range(REQUIRED_FILES) |-> Absent]
    /\ testPc = "idle"
    /\ testErrors = NewTestValidator.errors
    /\ testWarnings = NewTestValidator.warnings
    /\ testStats = NewTestValidator.stats
    /\ testStatus = -1

\* the goal validator while another validator runs
GoalIdle ==
    /\ goalDir = FALSE
    /\ goalFiles = [name \in GoalFileNames |-> Absent]
    /\ goalPc = "idle"
    /\ discoveredFiles = <<>>
    /\ cursor = 0
    /\ validatedFiles = <<>>
    /\ goalExitCode = 0
    /\ goalConsole = <<>>
    /\ goalReport = NoGoalReport
    /\ goalStatus = -1

InitValidator ==
    /\ GoalIdle
    /\ TestIdle
    /\ previous = NoPrevious
    /\ pc = "structure"
    /\ errors = NewValidator.errors
    /\ warnings = NewValidator.warnings
    /\ stats = NewValidator.stats
    /\ console = NoConsole
    /\ report = NoReport
    /\ exitCode = -1

CurrentYears == {2026}

\* the main validator while another validator runs
MainIdle ==
    /\ fs = [p \in Paths |-> Absent]
    /\ dirs = {}
    /\ pc = "idle"
    /\ errors = NewValidator.errors
    /\ warnings = NewValidator.warnings
    /\ stats = NewValidator.stats
    /\ console = NoConsole
    /\ report = NoReport
    /\ currentYear \in CurrentYears
    /\ exitCode = -1
    /\ previous = NoPrevious

\* the content files in the order validateContentStructure visits them
PathList ==
    [i \in 1..(Len(contentTypes) * Len(supportedLanguages)) |->
        <<contentTypes[((i - 1) \div Len(supportedLanguages)) + 1],
          supportedLanguages[((i - 1) % Len(supportedLanguages)) + 1]>>]

\* the file system whose i-th file is the picks[i]-th of Files for the
\* slots[i]-th path
FileSystem(slots, picks) ==
    [p \in Paths |->
        LET at == {i \in DOMAIN slots : PathList[slots[i]] = p}
        IN  IF at = {} THEN Absent
            ELSE LET i == CHOOSE i \in at : TRUE
                 IN  Files(p[1], p[2])[picks[i]]]

Present(f) == {p \in Paths : f[p].kind # "absent"}

\* a run over at most n content files
ContentInit(n) ==
    /\ currentYear \in CurrentYears
    /\ \E k \in 0..n :
          \E slots \in [1..k -> 1..Len(PathList)] :
             /\ \A i \in 1..k : \A j \in 1..k : i < j => slots[i] < slots[j]
             /\ \E picks \in [1..k -> 1..Len(HabitFiles("en"))] :
                   /\ \A i \in 1..k :
                         picks[i] <= Len(Files(PathList[slots[i]][1],
                                               PathList[slots[i]][2]))
                   /\ fs = FileSystem(slots, picks)
    /\ dirs \in {Range(requiredDirs), NeededDirs(Present(fs))}
    /\ InitValidator

Init == ContentInit(MaxFiles)

Spec == Init /\ [][Next]_vars

-----------------------------------------------------------------------------
(* Research records one at a time: every evidence level with quality       *)
(* scores around every threshold, in a research file of any language.      *)

ScoreSamples == {0, 39, 40, 41, 59, 60, 61, 65, 69, 70, 71, 79, 80, 81, 100}

ResearchSamples(language) ==
    {[R(1, language) EXCEPT !.evidenceLevel = level, !.qualityScore = score] :
        level \in EvidenceLevels \cup {"expert_opinion"}, score \in ScoreSamples}
    \cup {Without(R(1, language), {"qualityScore"}),
          Without(R(1, language), {"evidenceLevel"})}

ResearchInit ==
    /\ currentYear \in CurrentYears
    /\ \E language \in Range(supportedLanguages) :
         \E research \in ResearchSamples(language) :
            fs = [p \in Paths |-> IF p = <<"research", language>>
                                  THEN Array(<<R(2, language), research>>)
                                  ELSE Absent]
    /\ dirs = Range(requiredDirs)
    /\ InitValidator

ResearchSpec == ResearchInit /\ [][Next]_vars

-----------------------------------------------------------------------------
(* Goal files the runs of the goal validator are checked on *)

\* the most goal files present in one checked run
MaxGoalFiles == 2

GoalHabit(goal, language, n, priority) ==
    [id |-> <<goal, "-", language, "-", Digits[n + 1]>>,
     title |-> Words(2, 5), description |-> Words(4, 5), category |-> goal,
     difficulty |-> "easy", timeMinutes |-> 10, language |-> language,
     researchBacked |-> TRUE, effectivenessScore |-> 8, effectivenessRank |-> n,
     priority |-> priority, isPrimaryRecommendation |-> (n = 1),
     goalTags |-> <<goal>>, instructions |-> <<Words(3, 4)>>,
     whyEffective |-> Words(3, 5), researchSummary |-> Words(3, 6),
     sources |-> <<NumId("r", 1)>>, optimalTiming |-> "morning",
     progressionTips |-> <<Words(2, 4)>>]

OtherGoal(goal) == IF goal = "feel_better" THEN "get_moving" ELSE "feel_better"

GoalFileChoices(goal, language) ==
    LET G(n, priority) == GoalHabit(goal, language, n, priority)
    IN  <<BadJson, Object(<<>>), Array(<<>>),
         Array(<<G(1, 1)>>),
         Array(<<G(1, 1), G(2, 2)>>),
         Array(<<G(1, 1), G(1, 2)>>),
         Array(<<G(1, 1), G(1, 2), G(1, 3)>>),
         Array(<<G(1, 1), G(2, 2), G(1, 3), G(2, 4)>>),
         Array(<<G(1, 1), Without(G(2, 2), {"description", "goalTags"})>>),
         Array(<<G(1, 1), G(2, 1)>>),
         Array(<<[G(1, 1) EXCEPT !.category = OtherGoal(goal)]>>),
         Array(<<G(1, 1), [G(2, 2) EXCEPT !.language = OtherLanguage(language)]>>),
         Array(<<[G(1, 1) EXCEPT !.isPrimaryRecommendation = FALSE]>>),
         Array(<<[G(1, 1) EXCEPT !.timeMinutes = 0]>>),
         Array(<<[G(1, 1) EXCEPT !.timeMinutes = maxTimeMinutes + 1]>>),
         Array(<<[G(1, 1) EXCEPT !.timeMinutes = -1]>>),
         Array(<<G(1, 1), G(2, 3)>>),
         Array(<<[G(1, 1) EXCEPT !.id = NumId("h", 1)]>>)>>

\* the files a run may hold under each name discoverGoalFiles looks for
GoalFilePool ==
    [i \in 1..Len(candidateFiles) |->
        GoalFileChoices(candidateFiles[i].goal, candidateFiles[i].language)]

\* the content directory whose i-th file is the picks[i]-th choice for the
\* slots[i]-th name discoverGoalFiles looks for
GoalDirectory(slots, picks) ==
    [name \in GoalFileNames |->
        LET at == {i \in DOMAIN slots : candidateFiles[slots[i]].filename = name}
        IN  IF at = {} THEN Absent
            ELSE LET i == CHOOSE i \in at : TRUE
                 IN  GoalFilePool[slots[i]][picks[i]]]

\* a run of the goal validator over at most n goal files
GoalContentInit(n) ==
    /\ goalDir \in BOOLEAN
    /\ \E k \in 0..(IF goalDir THEN n ELSE 0) :
          \E slots \in [1..k -> 1..Len(candidateFiles)] :
             /\ \A i \in 1..k : \A j \in 1..k : i < j => slots[i] < slots[j]
             /\ \E picks \in [1..k -> 1..Len(GoalFilePool[1])] :
                   goalFiles = GoalDirectory(slots, picks)
    /\ goalPc = "discover"
    /\ discoveredFiles = <<>>
    /\ cursor = 0
    /\ validatedFiles = <<>>
    /\ goalExitCode = 0
    /\ goalConsole = <<>>
    /\ goalReport = NoGoalReport
    /\ goalStatus = -1
    /\ MainIdle
    /\ TestIdle

GoalInit == GoalContentInit(MaxGoalFiles)

GoalSpec == GoalInit /\ [][GoalNext]_vars

-----------------------------------------------------------------------------
(* Habit files the runs of the test validator are checked on *)

DifficultyIn(language) == IF language = "de" THEN "Einfach" ELSE "easy"

\* the n-th habit of the test content, in the given language
TestHabit(n, language) ==
    [GoalHabit(VALID_CATEGORIES[((n - 1) % Len(VALID_CATEGORIES)) + 1], language, n, n)
        EXCEPT !.id = NumId("h", n), !.difficulty = DifficultyIn(language)]

\* the habits 1..n: n = 6 gives every category its two habits
TestHabits(n, language) == [i \in 1..n |-> TestHabit(i, language)]

\* the most habits in a file of the test content
MaxTestHabits == 6

TestFileChoices(language) ==
    LET T(n) == TestHabit(n, language)
        all == TestHabits(MaxTestHabits, language)
    IN  <<Absent, BadJson, Object(<<>>), Array(<<>>),
          Array(<<T(1)>>),
          Array(<<T(1), T(2)>>),
          Array(<<T(2), T(1)>>),
          Array(<<T(1), T(2), T(3)>>),
          Array(<<T(1), T(1)>>),
          Array(<<T(2), T(2), T(2)>>),
          Array(<<T(1), Without(T(2), {"id"})>>),
          Array(<<[T(1) EXCEPT !.language = OtherLanguage(language)]>>),
          Array(all),
          Array(SubSeq(all, 2, Len(all)) \o <<all[1]>>),
          Array(SubSeq(all, 1, Len(all) - 1)),
          Array(all \o <<TestHabit(Len(all) + 1, language)>>),
          Array(<<[T(1) EXCEPT !.timeMinutes = 0]>>),
          Array(<<[T(1) EXCEPT !.timeMinutes = -1]>>)>>

TestInit ==
    /\ \E picks \in [Range(REQUIRED_FILES) -> 1..Len(TestFileChoices("en"))] :
          testFiles = [file \in Range(REQUIRED_FILES) |->
                          TestFileChoices(file)[picks[file]]]
    /\ testPc = "structure"
    /\ testErrors = NewTestValidator.errors
    /\ testWarnings = NewTestValidator.warnings
    /\ testStats = NewTestValidator.stats
    /\ testStatus = -1
    /\ MainIdle
    /\ GoalIdle

TestSpec == TestInit /\ [][TestNext]_vars

-----------------------------------------------------------------------------
(* Properties of the main validator *)

Count(messages, Test(_)) == Len(SelectSeq(messages, Test))

ArrayTypes == {"habits", "research"}

\* the text field the quality check reads
TextOf(contentType) == IF contentType = "habits" THEN "description" ELSE "summary"

IsArray(p) == fs[p].kind = "array"

\* the run is over: the process has exited
Exited == pc = "done"

\* C1: the exit status of a run is 0 exactly when no error was recorded and 1
\* otherwise, and the `passed` flag of the report equals "the error list is
\* empty"; warnings do not enter either.
C1_ExitReflectsErrors ==
    Exited =>
        /\ exitCode \in {0, 1}
        /\ (exitCode = 0) <=> (Len(errors) = 0)
        /\ report.written =>
              /\ report.errors = errors
              /\ report.passed = (Len(errors) = 0)
              /\ (exitCode = 0) <=> report.passed

\* a run with warnings and no error passes
C1_Witness ==
    /\ Exited /\ report.written /\ report.passed
    /\ exitCode = 0 /\ Len(warnings) > 0 /\ Len(errors) = 0

\* no file makes a phase throw for a reason other than being invalid JSON
OnlyJsonDefects ==
    \A p \in Paths :
        p[1] \in ArrayTypes =>
            /\ fs[p].kind # "object"
            /\ \A i \in 1..Len(fs[p].items) : Has(fs[p].items[i], TextOf(p[1]))

\* C2: a content file that is not valid JSON never aborts the run: every later
\* phase is executed and generateReport is reached.
C2_InvalidJsonNeverAborts ==
    (Exited /\ OnlyJsonDefects /\ \E p \in Paths : fs[p].kind = "badjson")
        => report.written

\* the record has every required field, meets every constraint, has no
\* undeclared field and carries the language of its file
ConformingHabit(item, language) ==
    /\ SchemaErrors(HabitSchema, item) = <<>>
    /\ item.language = language

ConformingHabitsFile(language) ==
    LET file == fs[<<"habits", language>>]
    IN  /\ file.kind = "array"
        /\ Len(file.items) > 0
        /\ \A i \in 1..Len(file.items) : ConformingHabit(file.items[i], language)

\* C3: validateContentType('habits') records no error for a habits file that is a
\* non-empty array of records conforming to the habit schema.
C3_ConformingHabitsNoError ==
    pc = "research" =>
        \A language \in Range(supportedLanguages) :
            ConformingHabitsFile(language) =>
                Count(errors, LAMBDA e : e.ctype \in {"habit", "habits"}
                                         /\ e.language = language) = 0

RequiredOf(contentType) ==
    IF contentType = "habits" THEN HabitSchema.required
    ELSE ResearchSchema(currentYear).required

\* the errors recorded because record `index` of the file lacks `field`
MissingFieldErrors(contentType, language, index, field) ==
    Count(errors, LAMBDA e : /\ e.kind = "schema" /\ e.keyword = "required"
                             /\ e.ctype \in {contentType, "habit"}
                             /\ e.language = language /\ e.index = index
                             /\ e.field = field)

\* C4: a record lacking k required fields gets exactly k errors for them, one
\* naming each missing field (and none naming a field it has).
C4_OneErrorPerMissingField ==
    pc = "crossrefs" =>
        \A p \in Paths :
            (p[1] \in ArrayTypes /\ IsArray(p)) =>
                \A i \in 1..Len(fs[p].items) :
                    \A field \in Range(RequiredOf(p[1])) :
                        MissingFieldErrors(p[1], p[2], i - 1, field)
                            = IF Has(fs[p].items[i], field) THEN 0 ELSE 1

\* the IDs (keys, for locales) of a file; none when it is absent or unreadable
\* the ids of the records of a goal file, in file order
GoalFileIds(name) ==
    [i \in 1..Len(goalFiles[name].items) |-> Get(goalFiles[name].items[i], "id")]

\* the ids two or more records of the goal file carry
SharedIds(name) ==
    {id \in Range(GoalFileIds(name)) : Count(GoalFileIds(name), LAMBDA x : x = id) >= 2}

\* C5: when the goal validator has exited and two or more records of one goal
\* file share an id, a duplicate-ID error was printed, and it names each id
\* shared in that file exactly once, however many records carry it.
C5_DuplicateIdNamedOnce ==
    goalStatus # -1 =>
        \A name \in GoalFileNames :
            SharedIds(name) # {} =>
                \E n \in 1..Len(goalConsole) :
                    /\ goalConsole[n].kind = "duplicate_ids"
                    /\ \A id \in SharedIds(name) :
                          Count(goalConsole[n].ids, LAMBDA x : x = id) = 1

FileIds(contentType, language) ==
    LET file == fs[<<contentType, language>>]
    IN  IF contentType = "locales"
        THEN {file.entries[i][1] : i \in 1..Len(file.entries)}
        ELSE {Get(file.items[i], "id") : i \in 1..Len(file.items)}

TranslationWarnings(contentType, language) ==
    SelectSeq(warnings, LAMBDA w : /\ w.kind = "missing_translation"
                                   /\ w.ctype = contentType /\ w.language = language)

\* C6: once validateTranslationCompleteness has run, each content type and each
\* language L other than 'en' has a missing-translation warning iff some ID of
\* 'en' is not an ID of L; the warning names only such IDs, and all of them
\* when there are at most three (baseline {a,b,c} against {a,b} names exactly c).
C6_MissingTranslations ==
    pc = "quality" =>
        \A contentType \in Range(contentTypes) :
            \A language \in Range(supportedLanguages) \ {"en"} :
                LET diff == FileIds(contentType, "en") \ FileIds(contentType, language)
                    found == TranslationWarnings(contentType, language)
                IN  /\ Len(found) = IF diff = {} THEN 0 ELSE 1
                    /\ \A i \in 1..Len(found) :
                          /\ Range(found[i].ids) \subseteq diff
                          /\ Cardinality(diff) <= 3 => Range(found[i].ids) = diff

\* 'en' has three habits, 'de' the first two of them: the warning names the third
C6_Witness ==
    /\ pc = "quality"
    /\ FileIds("habits", "en") = {NumId("h", 1), NumId("h", 2), NumId("h", 3)}
    /\ FileIds("habits", "de") = {NumId("h", 1), NumId("h", 2)}
    /\ TranslationWarnings("habits", "de")
          = <<[Msg("missing_translation", "habits", "de", -1)
                 EXCEPT !.ids = <<NumId("h", 3)>>]>>

\* C7: a habits or research file that is valid JSON but not an array ends with
\* exactly one "must be an array" error in the run's report and no message
\* about an element of it.
C7_NotArrayOneError ==
    Exited =>
        \A p \in Paths :
            (p[1] \in ArrayTypes /\ fs[p].kind = "object") =>
                /\ report.written
                /\ Count(report.errors, LAMBDA e : /\ e.kind = "not_array"
                                                    /\ e.ctype = p[1]
                                                    /\ e.language = p[2]) = 1
                /\ Count(report.errors \o report.warnings,
                         LAMBDA m : /\ m.ctype = p[1] /\ m.language = p[2]
                                    /\ m.index >= 0) = 0

\* the three phases after the per-type validation, as validateAll chains them
Downstream(f, v) ==
    LET a == validateCrossReferences(f, v)
        b == IF a.threw THEN a ELSE validateTranslationCompleteness(f, a)
    IN  IF b.threw THEN b ELSE validateContentQuality(f, b)

AbsenceWarnings(kind, p) ==
    Count(warnings, LAMBDA w : w.kind = kind /\ w.ctype = p[1] /\ w.language = p[2])

\* the per-type validation of content type `contentType` has run
TypeValidated(contentType) ==
    \/ pc \in {"crossrefs", "translation", "quality", "report", "done"}
    \/ pc = "research" /\ contentType = "habits"
    \/ pc = "locales" /\ contentType \in {"habits", "research"}

\* C8: an absent file gets a warning from the structure check and one from the
\* validation of its type, never an error, and the phases after the per-type
\* validation do exactly what they do when the file is an empty array (an empty
\* map for locales).
C8_AbsentFileIsEmptyDataSet ==
    \A p \in Paths :
        fs[p].kind = "absent" =>
            /\ pc # "structure" => AbsenceWarnings("missing_file", p) = 1
            /\ TypeValidated(p[1]) => AbsenceWarnings("missing_type_file", p) = 1
            /\ Count(errors, LAMBDA e : e.ctype = p[1] /\ e.language = p[2]) = 0
            /\ pc = "crossrefs" =>
                  Downstream(fs, This)
                      = Downstream([fs EXCEPT ![p] = EmptyContent(p[1])], This)

\* a run over absent files and a baseline with content reaches the report
C8_Witness ==
    /\ Exited /\ report.written /\ exitCode = 0
    /\ fs[<<"research", "en">>].kind = "array" /\ Len(fs[<<"research", "en">>].items) = 2
    /\ fs[<<"research", "de">>].kind = "absent"
    /\ Len(TranslationWarnings("research", "de")) = 1
    /\ AbsenceWarnings("missing_file", <<"research", "de">>) = 1

HasMarker(text) == Includes(text, TODO) \/ Includes(text, Placeholder)

\* C9: every habit whose description, and every research record whose summary,
\* contains "TODO" or "placeholder" has a placeholder-content error by the end
\* of the run.
C9_PlaceholderReported ==
    Exited =>
        \A p \in Paths :
            (p[1] \in ArrayTypes /\ IsArray(p)) =>
                \A i \in 1..Len(fs[p].items) :
                    LET item == fs[p].items[i]
                    IN  (Has(item, TextOf(p[1])) /\ HasMarker(item[TextOf(p[1])])) =>
                            Count(errors, LAMBDA e : /\ e.kind = "placeholder"
                                                     /\ e.ctype = p[1]
                                                     /\ e.ids = <<Get(item, "id")>>) >= 1

\* the least quality score expected of an evidence level
MinQuality(level) ==
    CASE level = "systematic_review" -> 80
      [] level = "rct" -> 70
      [] level = "observational" -> 60
      [] level = "case_study" -> 40

QualityWarnings(language, index) ==
    Count(warnings, LAMBDA w : /\ w.kind = "quality" /\ w.ctype = "research"
                               /\ w.language = language /\ w.index = index)

\* C10: a research record whose evidenceLevel is one of the four levels gets
\* exactly one quality warning when its qualityScore is below the minimum of the
\* level, and none when it is at or above it.
C10_QualityVsEvidence ==
    pc = "locales" =>
        \A language \in Range(supportedLanguages) :
            LET items == fs[<<"research", language>>].items
            IN  \A i \in 1..Len(items) :
                    (/\ Has(items[i], "evidenceLevel") /\ Has(items[i], "qualityScore")
                     /\ items[i].evidenceLevel \in EvidenceLevels) =>
                        QualityWarnings(language, i - 1)
                            = IF items[i].qualityScore < MinQuality(items[i].evidenceLevel)
                              THEN 1 ELSE 0

\* rct with 65 has its warning
C10_Witness ==
    /\ pc = "locales"
    /\ \E language \in Range(supportedLanguages) :
         LET items == fs[<<"research", language>>].items
         IN  /\ Len(items) = 2
             /\ Has(items[2], "evidenceLevel") /\ Has(items[2], "qualityScore")
             /\ items[2].evidenceLevel = "rct" /\ items[2].qualityScore = 65
             /\ QualityWarnings(language, 1) = 1
             /\ QualityWarnings(language, 0) = 0

-----------------------------------------------------------------------------
(* Cross-references, language consistency, business rules *)

\* validateCrossReferences has been called
CrossReferenced == pc \in {"translation", "quality", "report", "done"}

\* the research ids of every language's research file
KnownResearchIds ==
    UNION {Range(ItemIds(fs[<<"research", language>>].items)) :
              language \in Range(supportedLanguages)}

UnknownResearch(issues, language, index, sourceId) ==
    Count(issues, LAMBDA m : /\ m.kind = "unknown_research" /\ m.language = language
                             /\ m.index = index /\ m.ids = <<sourceId>>)

\* C11: once validateCrossReferences has been called, a `sources` entry of a
\* habit has a warning iff its id is in no language's research file, and it
\* never has an error.
C11_UnknownResearchWarned ==
    CrossReferenced =>
        \A language \in Range(supportedLanguages) :
            LET habits == fs[<<"habits", language>>].items
            IN  \A i \in 1..Len(habits) :
                    Has(habits[i], "sources") =>
                        \A k \in 1..Len(habits[i].sources) :
                            LET sourceId == habits[i].sources[k]
                            IN  /\ UnknownResearch(errors, language, i - 1, sourceId) = 0
                                /\ (UnknownResearch(warnings, language, i - 1, sourceId) >= 1)
                                      <=> (sourceId \notin KnownResearchIds)

LanguageMismatch(issues, p, index) ==
    Count(issues, LAMBDA m : /\ m.kind = "language_mismatch" /\ m.ctype = p[1]
                             /\ m.language = p[2] /\ m.index = index)

\* C12: once the files of a type have been validated, every habit or research
\* record whose `language` differs from its file's language has a
\* language-mismatch warning and no language-mismatch error.
C12_LanguageMismatchWarned ==
    \A p \in Paths :
        (p[1] \in ArrayTypes /\ TypeValidated(p[1])) =>
            \A i \in 1..Len(fs[p].items) :
                LET item == fs[p].items[i]
                IN  (Has(item, "language") /\ item.language # p[2]) =>
                        /\ LanguageMismatch(warnings, p, i - 1) = 1
                        /\ LanguageMismatch(errors, p, i - 1) = 0

\* C13: once validateAll has validated the habits files, every record of a
\* habits file with researchBacked true and `sources` empty or absent has a
\* research-backing warning.
C13_ResearchBackingWarned ==
    TypeValidated("habits") =>
        \A language \in Range(supportedLanguages) :
            LET habits == fs[<<"habits", language>>].items
            IN  \A i \in 1..Len(habits) :
                    (/\ Has(habits[i], "researchBacked") /\ habits[i].researchBacked
                     /\ (~Has(habits[i], "sources") \/ Len(habits[i].sources) = 0)) =>
                        Count(warnings, LAMBDA w : /\ w.kind = "no_sources"
                                                   /\ w.language = language
                                                   /\ w.index = i - 1) >= 1

-----------------------------------------------------------------------------
(* loadContentSafely *)

LoadFailures(issues, p) ==
    Count(issues, LAMBDA e : /\ e.kind = "load_failed" /\ e.ctype = p[1]
                             /\ e.language = p[2])

\* C14: in every state of a run and for every content file, loadContentSafely
\* returns without throwing; for a file that exists but does not parse it adds
\* one error naming the file and returns [] ({} for locales); for an absent
\* file it returns the same value and adds nothing.  Once the translation check
\* has run, the errors hold such an error for every unparseable locales file.
C14_LoadContentSafely ==
    \A p \in Paths :
        LET loaded == loadContentSafely(fs, This, p[1], p[2])
        IN  /\ ~loaded.v.threw
            /\ loaded.v.warnings = warnings
            /\ fs[p].kind = "badjson" =>
                  /\ loaded.content = EmptyContent(p[1])
                  /\ loaded.v.errors = Append(errors, Msg("load_failed", p[1], p[2], -1))
                  /\ (p[1] = "locales" /\ pc \in {"quality", "report"}) =>
                        LoadFailures(errors, p) >= 1
            /\ fs[p].kind = "absent" =>
                  /\ loaded.content = EmptyContent(p[1])
                  /\ loaded.v.errors = errors
                  /\ LoadFailures(errors, p) = 0

\* the translation check has loaded an unparseable locales file
C14_Witness ==
    /\ pc = "quality"
    /\ \E p \in Paths :
         /\ p[1] = "locales" /\ fs[p].kind = "badjson"
         /\ LoadFailures(errors, p) >= 1
         /\ loadContentSafely(fs, This, p[1], p[2]).content = EmptyContent("locales")

-----------------------------------------------------------------------------
(* Missing directory tree *)

\* none of the content directories exists
TreeMissing == dirs \cap Range(requiredDirs) = {}

\* C15: when the content directory tree is missing, the run ends right after
\* validateContentStructure has reported it: the process has exited with a
\* non-zero status and validateContentType has visited no file.
C15_MissingTreeAborts ==
    (TreeMissing /\ pc # "structure") =>
        /\ pc = "done"
        /\ exitCode # 0
        /\ Count(warnings, LAMBDA w : w.kind = "missing_type_file") = 0
        /\ stats.filesValidated = 0

-----------------------------------------------------------------------------
(* Running the main validator twice: when a run has ended, the validator   *)
(* is started again over the unchanged file set, in a new process with a   *)
(* new ContentValidator; `previous` keeps what the first run came to.       *)

\* the most content files of a run that is repeated
MaxRerunFiles == 1

\* a variant in which the second run goes on with the lists of the first
RestartKeeping(v) == v

\* the validator a new process constructs, whatever the one before it held
Restart(v) == NewValidator

Rerun ==
    /\ pc = "done"
    /\ ~previous.ran
    /\ previous' = [ran |-> TRUE, errors |-> errors, warnings |-> warnings,
                    stats |-> stats, console |-> console, report |-> report,
                    exitCode |-> exitCode, currentYear |-> currentYear]
    /\ currentYear' \in {currentYear, currentYear + 1}
    /\ errors' = Restart(This).errors
    /\ warnings' = Restart(This).warnings
    /\ stats' = Restart(This).stats
    /\ console' = NoConsole
    /\ exitCode' = -1
    /\ pc' = "structure"
    /\ UNCHANGED <<fs, dirs, report>>
    /\ UNCHANGED <<goalVars, testVars>>

RerunNext == Next \/ Rerun

RerunSpec == ContentInit(MaxRerunFiles) /\ [][RerunNext]_vars

-----------------------------------------------------------------------------
(* Translation warnings and the console *)

\* the most ids a translation warning of the content type lists
PreviewSize(contentType) == IF contentType = "research" THEN 3 ELSE 5

\* the ids of 'en' that the language lacks, in the order of the 'en' file
MissingInOrder(contentType, language) ==
    SelectSeq(ContentIds(fs[<<contentType, "en">>], contentType),
              LAMBDA id : id \notin FileIds(contentType, language))

\* C17: once validateTranslationCompleteness has run, a missing-translation
\* warning lists the first ids missing, at most 5 (3 for research), and states
\* how many are missing: it carries the number, or it lists them all.
C17_PreviewAndCount ==
    pc = "quality" =>
        \A contentType \in Range(contentTypes) :
            \A language \in Range(supportedLanguages) \ {"en"} :
                LET missing == MissingInOrder(contentType, language)
                    found == TranslationWarnings(contentType, language)
                IN  \A i \in 1..Len(found) :
                        /\ Len(found[i].ids) <= PreviewSize(contentType)
                        /\ found[i].ids = Slice(missing, PreviewSize(contentType))
                        /\ \/ found[i].num = Len(missing)
                           \/ Len(found[i].ids) = Len(missing)

\* C18: when generateReport has run, it has printed every error and the first
\* 20 warnings (all of them when there are at most 20), the remainder line
\* states the number of warnings beyond 20 and is absent (0) when there are
\* none, and the report file holds all errors and all warnings.
C18_ConsolePreviewFullReport ==
    (pc = "done" /\ report.written /\ ~previous.ran) =>
        LET shown == IF Len(warnings) > 20 THEN 20 ELSE Len(warnings)
        IN  /\ console.errors = errors
            /\ console.warnings = [i \in 1..shown |-> warnings[i]]
            /\ console.more = Len(warnings) - shown
            /\ report.errors = errors
            /\ report.warnings = warnings

\* a report over more than 20 warnings, with errors
C18_Witness ==
    /\ pc = "done" /\ report.written /\ ~previous.ran
    /\ Len(warnings) > 20 /\ Len(errors) > 0
    /\ Len(console.warnings) = 20
    /\ console.more = Len(report.warnings) - 20

-----------------------------------------------------------------------------
(* What a run writes: a run of either validator over one content file *)

\* the most content files of a run whose writes are checked
MaxFrameFiles == 1

EitherInit == ContentInit(MaxFrameFiles) \/ GoalContentInit(MaxFrameFiles)

EitherNext == Next \/ GoalNext

EitherSpec == EitherInit /\ [][EitherNext]_vars

\* C19: no step of either validator changes a content file or a content
\* directory, and the report file of each validator changes only in the step
\* of its report generator.
C19_OnlyTheReportIsWritten ==
    [][/\ fs' = fs /\ dirs' = dirs
       /\ goalFiles' = goalFiles /\ goalDir' = goalDir
       /\ report' # report => (pc = "report" /\ pc' = "done")
       /\ goalReport' # goalReport => (goalPc = "report" /\ goalPc' = "done")]_vars

\* the main validator has written its report over a content file it left alone
C19_Witness ==
    /\ pc = "done" /\ report.written
    /\ Present(fs) # {}
    /\ goalPc = "idle" /\ ~goalReport.written

-----------------------------------------------------------------------------
(* Test validator: matching translations *)

\* the habit ids of a required file
TestIds(file) == Range(ItemIds(testFiles[file].items))

TranslationErrors(kind) == SelectSeq(testErrors, LAMBDA e : e.kind = kind)

\* validateBusinessRules has returned, when no earlier test threw
RulesChecked == testPc \in {"compatibility", "report", "done"}

\* C20: in the test validator, when the EN and the DE file both hold an array,
\* the business rules leave no translation error iff the two files have the
\* same set of habit ids; the ids only EN has are named by one error, the ids
\* only DE has by another; and whenever both files exist and their ids differ,
\* the run exits with a non-zero status.
C20_MatchingTranslations ==
    /\ (testFiles["en"].kind = "array" /\ testFiles["de"].kind = "array"
        /\ RulesChecked) =>
           LET onlyEn == TestIds("en") \ TestIds("de")
               onlyDe == TestIds("de") \ TestIds("en")
               german == TranslationErrors("missing_german")
               english == TranslationErrors("missing_english")
           IN  /\ (Len(german) = 0 /\ Len(english) = 0) <=> (TestIds("en") = TestIds("de"))
               /\ Len(german) = IF onlyEn = {} THEN 0 ELSE 1
               /\ Len(english) = IF onlyDe = {} THEN 0 ELSE 1
               /\ \A i \in 1..Len(german) : Range(german[i].ids) = onlyEn
               /\ \A i \in 1..Len(english) : Range(english[i].ids) = onlyDe
    /\ (testFiles["en"].kind # "absent" /\ testFiles["de"].kind # "absent"
        /\ testPc = "done" /\ TestIds("en") # TestIds("de")) =>
           testStatus = 1

\* DE holds a habit EN lacks, and nothing else differs: the run has failed
C20_Witness ==
    /\ testPc = "done" /\ testStatus = 1
    /\ testFiles["en"].kind = "array" /\ testFiles["de"].kind = "array"
    /\ TestIds("en") # {} /\ TestIds("en") \subseteq TestIds("de")
    /\ TestIds("de") \ TestIds("en") # {}
    /\ Len(TranslationErrors("missing_english")) = 1
    /\ Len(TranslationErrors("missing_german")) = 0

-----------------------------------------------------------------------------
(* Properties of the goal validator and of the test validator *)

\* the discovered files main's loop has gone through
Processed == {i \in 1..Len(discoveredFiles) : i < cursor}

\* the habits of a discovered file, none when it holds no array
HabitsOf(fileInfo) ==
    IF goalFiles[fileInfo.filename].kind = "array"
    THEN goalFiles[fileInfo.filename].items ELSE <<>>

NotPositive(habit, field) == Has(habit, field) /\ habit[field] <= 0

\* C21: every habit whose timeMinutes is present but not a positive number (0
\* and negative values included) is rejected with a timeMinutes error; for
\* the goal validator, validateHabitStructure throws for it and the error
\* names timeMinutes.
C21_NonPositiveTimeRejected ==
    \A i \in Processed :
        LET fileInfo == discoveredFiles[i]
            habits == HabitsOf(fileInfo)
        IN  \A h \in 1..Len(habits) :
                NotPositive(habits[h], "timeMinutes") =>
                    LET out == validateHabitStructure(habits[h], fileInfo.filename)
                    IN  /\ out.threw
                        /\ \E e \in 1..Len(out.error[1].detail) :
                              out.error[1].detail[e] = Finding("invalid", "timeMinutes")

\* the priorities of the habits of a file validateGoalFile accepted
PrioritiesOf(file) == [k \in 1..Len(file.habits) |-> file.habits[k].priority]

\* the validated file is what validateGoalFile returns for the discovered
\* file of that name
AcceptedAs(file) ==
    \E i \in Processed :
        /\ discoveredFiles[i].filename = file.file
        /\ ~validateGoalFile(goalFiles, discoveredFiles[i]).out.threw
        /\ file = validateGoalFile(goalFiles, discoveredFiles[i]).out.value
        /\ PrioritiesOf(file) =
              [k \in 1..Len(HabitsOf(discoveredFiles[i])) |->
                  HabitsOf(discoveredFiles[i])[k].priority]

Inconsistent(fileInfo) ==
    \E h \in 1..Len(HabitsOf(fileInfo)) :
        LET habit == HabitsOf(fileInfo)[h]
        IN  \/ Get(habit, "category") # fileInfo.goal
            \/ Get(habit, "language") # fileInfo.language

\* main has printed the error of the file and set the exit code
TurnedDown(fileInfo) ==
    /\ \A v \in 1..Len(validatedFiles) : validatedFiles[v].file # fileInfo.filename
    /\ \E m \in 1..Len(goalConsole) :
          /\ goalConsole[m].level = "error"
          /\ goalConsole[m].filename = fileInfo.filename
    /\ goalExitCode = 1

\* C23: for every goal file that validateGoalFile accepts, every habit in it
\* has `category` equal to the goal the file was discovered under and
\* `language` equal to the file's language; a single habit violating either
\* makes the whole file fail.
C23_CategoryAndLanguageConsistent ==
    \A i \in Processed :
        LET fileInfo == discoveredFiles[i]
        IN  /\ Inconsistent(fileInfo) =>
                  /\ validateGoalFile(goalFiles, fileInfo).out.threw
                  /\ TurnedDown(fileInfo)
            /\ ~TurnedDown(fileInfo) =>
                  /\ \E v \in 1..Len(validatedFiles) :
                        /\ validatedFiles[v].file = fileInfo.filename
                        /\ validatedFiles[v].goal = fileInfo.goal
                        /\ validatedFiles[v].language = fileInfo.language
                  /\ \A h \in 1..Len(HabitsOf(fileInfo)) :
                        /\ HabitsOf(fileInfo)[h].category = fileInfo.goal
                        /\ HabitsOf(fileInfo)[h].language = fileInfo.language

\* a file whose second habit alone is in another language was turned down for
\* its language, and another file was accepted
C23_Witness ==
    /\ \E i \in Processed :
          /\ Len(HabitsOf(discoveredFiles[i])) = 2
          /\ HabitsOf(discoveredFiles[i])[1].language = discoveredFiles[i].language
          /\ HabitsOf(discoveredFiles[i])[2].language # discoveredFiles[i].language
          /\ TurnedDown(discoveredFiles[i])
    /\ \E m \in 1..Len(goalConsole) : goalConsole[m].kind = "wrong_language"
    /\ Len(validatedFiles) = 1

\* the habits of a required file of the test validator, none when it holds no array
TestHabitsOf(file) ==
    IF testFiles[file].kind = "array" THEN testFiles[file].items ELSE <<>>

\* the number of habits of the category in the EN and the DE file together
HabitsInCategory(category) ==
    Cardinality({<<file, i>> \in Range(REQUIRED_FILES) \X (1..(MaxTestHabits + 2)) :
                    /\ i <= Len(TestHabitsOf(file))
                    /\ Get(TestHabitsOf(file)[i], "category") = category})

\* the errors of the minimum-habits rule for the category
TooFew(category) ==
    {e \in 1..Len(testErrors) :
        testErrors[e].kind = "too_few_habits" /\ testErrors[e].field = category}

\* no required file holds anything but an array, so every test runs to its end
TestReadable == \A file \in Range(REQUIRED_FILES) : testFiles[file].kind \in {"absent", "array"}

\* C24: in the test validator, the minimum-habits rule records an error for a
\* category c of better_sleep, get_moving, feel_better iff fewer than 2 habits
\* have category c, the count being the total over the EN and the DE file
\* together (one EN habit plus its DE translation meets the minimum).
C24_MinimumHabitsPerCategory ==
    (RulesChecked /\ TestReadable) =>
        \A c \in 1..Len(VALID_CATEGORIES) :
            LET category == VALID_CATEGORIES[c]
            IN  /\ (TooFew(category) # {}) <=> (HabitsInCategory(category) < 2)
                /\ Cardinality(TooFew(category)) <= 1

\* the EN file holds one habit and the DE file its translation: their category
\* has its two habits and no error, each other category has its error
C24_Witness ==
    /\ RulesChecked
    /\ Len(TestHabitsOf("en")) = 1
    /\ Len(TestHabitsOf("de")) = 1
    /\ TestHabitsOf("en")[1].id = TestHabitsOf("de")[1].id
    /\ TestHabitsOf("en")[1].category = TestHabitsOf("de")[1].category
    /\ TooFew(TestHabitsOf("en")[1].category) = {}
    /\ \E c \in 1..Len(VALID_CATEGORIES) : TooFew(VALID_CATEGORIES[c]) # {}

\* validateGoalFile accepts the i-th discovered file
Accepted(i) == ~validateGoalFile(goalFiles, discoveredFiles[i]).out.threw

\* what validateGoalFile returned for the accepted files among the first n
\* discovered files, in the order of discovery
AcceptedResults(n) ==
    LET accepted == SelectSeq([i \in 1..n |-> i], Accepted)
    IN  [k \in 1..Len(accepted) |->
            validateGoalFile(goalFiles, discoveredFiles[accepted[k]]).out.value]

\* the lines main's loop printed for the files validateGoalFile threw for
Rejections ==
    {m \in 1..Len(goalConsole) :
        goalConsole[m].level = "error" /\ goalConsole[m].kind # "none_passed"}

\* main's loop is over
LoopOver == goalPc \in {"crossfile", "api", "report"} \/ (goalPc = "done" /\ cursor > 0)

\* an error reached main's outer catch
OuterCatch == \E m \in 1..Len(goalConsole) : goalConsole[m].level = "failed"

\* C25: in the goal validator's main, a validation failure in one discovered
\* file never prevents the remaining discovered files from being validated;
\* the run exits 0 iff every discovered file was accepted and no later step
\* threw, exits 1 if any file failed, and the written report contains exactly
\* the accepted files.
C25_FailureDoesNotStopTheLoop ==
    /\ validatedFiles = AcceptedResults(Cardinality(Processed))
    /\ Cardinality(Rejections) = Cardinality({i \in Processed : ~Accepted(i)})
    /\ LoopOver => Processed = 1..Len(discoveredFiles)
    /\ goalPc = "done" =>
          /\ goalStatus \in {0, 1}
          /\ (goalStatus = 0) <=>
                /\ Len(discoveredFiles) > 0
                /\ \A i \in 1..Len(discoveredFiles) : Accepted(i)
                /\ ~OuterCatch
          /\ (\E i \in 1..Len(discoveredFiles) : ~Accepted(i)) => goalStatus = 1
    /\ goalReport.written =>
          /\ goalReport.files = AcceptedResults(Len(discoveredFiles))
          /\ goalReport.totalFiles =
                Cardinality({i \in 1..Len(discoveredFiles) : Accepted(i)})

\* the first of two discovered files was turned down, the second was accepted
\* all the same and is the one file of the report; the run exited with 1
C25_Witness ==
    /\ goalPc = "done"
    /\ Len(discoveredFiles) = 2
    /\ ~Accepted(1)
    /\ Accepted(2)
    /\ goalReport.written
    /\ Len(goalReport.files) = 1
    /\ goalReport.files[1].file = discoveredFiles[2].filename
    /\ goalStatus = 1

\* two validated files hold a habit of the same id
SharedAcrossFiles(a, b) ==
    /\ a # b
    /\ \E j \in 1..Len(validatedFiles[a].habits) :
          \E k \in 1..Len(validatedFiles[b].habits) :
             validatedFiles[a].habits[j].id = validatedFiles[b].habits[k].id

\* main's outer catch printed the duplicate-ID error
DuplicateIdsFailure ==
    \E m \in 1..Len(goalConsole) :
        goalConsole[m].level = "failed" /\ goalConsole[m].kind = "duplicate_ids"

\* C26: in the goal validator, validateCrossFileConsistency compares habit IDs
\* across all accepted files regardless of language: if the same habit ID
\* occurs in two accepted files (an EN file and its DE, FR or ES translation
\* included), the run aborts with exit status 1 before any report is written.
C26_SharedIdAborts ==
    (\E a, b \in 1..Len(validatedFiles) : SharedAcrossFiles(a, b)) =>
        /\ ~goalReport.written
        /\ goalPc \in {"validate", "crossfile", "done"}
        /\ goalPc = "done" => (goalStatus = 1 /\ DuplicateIdsFailure)

\* the EN file of a goal and its DE translation were both accepted and hold a
\* habit of the same id: the run is over with status 1 and no report
C26_Witness ==
    /\ goalPc = "done"
    /\ \E a, b \in 1..Len(validatedFiles) :
          /\ SharedAcrossFiles(a, b)
          /\ validatedFiles[a].goal = validatedFiles[b].goal
          /\ validatedFiles[a].language = "en"
          /\ validatedFiles[b].language = "de"
    /\ goalStatus = 1
    /\ ~goalReport.written

\* the discovered file holds habits none of which is a primary recommendation
NoPrimary(fileInfo) ==
    /\ Len(HabitsOf(fileInfo)) > 0
    /\ \A h \in 1..Len(HabitsOf(fileInfo)) :
          /\ Has(HabitsOf(fileInfo)[h], "isPrimaryRecommendation")
          /\ ~HabitsOf(fileInfo)[h].isPrimaryRecommendation

\* the same files, the first habit of the named file being a primary recommendation
WithPrimary(filename) ==
    [goalFiles EXCEPT ![filename].items[1].isPrimaryRecommendation = TRUE]

NoPrimaryWarned(filename) ==
    \E m \in 1..Len(goalConsole) :
        /\ goalConsole[m].level = "warn"
        /\ goalConsole[m].kind = "no_primary"
        /\ goalConsole[m].filename = filename

-----------------------------------------------------------------------------
(* Properties of a run of the main validator *)

IsPrefix(s, t) == Len(s) <= Len(t) /\ SubSeq(t, 1, Len(s)) = s

\* the counters of stats agree with the two lists
CountersAgree ==
    /\ stats.totalErrors = Len(errors)
    /\ stats.totalWarnings = Len(warnings)

\* a step only appends to the two lists, and a report written by it holds them
ListsGrow ==
    /\ IsPrefix(errors, errors')
    /\ IsPrefix(warnings, warnings')
    /\ report'.written =>
          /\ report'.errors = errors'
          /\ report'.warnings = warnings'
          /\ report'.statistics.totalErrors = Len(errors')
          /\ report'.statistics.totalWarnings = Len(warnings')

\* C28: in every reachable state of a main-validator run, stats.totalErrors
\* equals the length of the errors list and stats.totalWarnings the length of
\* the warnings list, and both lists only ever grow (no recorded issue is
\* removed or changed), so an error once recorded is always present when the
\* report is generated.
C28_CountersAndListsGrow == []CountersAgree /\ [][ListsGrow]_vars

\* the report holds several errors and a warning recorded by earlier phases
C28_Witness ==
    /\ pc = "done"
    /\ report.written
    /\ Len(report.errors) >= 2
    /\ Len(report.warnings) >= 1
    /\ report.statistics.totalErrors = Len(errors)

\* the phases of a run in their fixed order, the report and the exit after them
PhaseOrder ==
    <<"structure", "habits", "research", "locales", "crossrefs", "translation",
      "quality", "report", "done">>

\* the phase the run is in throws
PhaseThrows ==
    CASE pc = "structure" -> validateContentStructure(This).threw
      [] pc \in {"habits", "research", "locales"} -> validateContentType(This, pc).threw
      [] pc = "crossrefs" -> validateCrossReferences(fs, This).threw
      [] pc = "translation" -> validateTranslationCompleteness(fs, This).threw
      [] pc = "quality" -> validateContentQuality(fs, This).threw
      [] OTHER -> FALSE

\* a step of the run: the next phase in the order, or the exit with status 1
\* and without a report when the phase throws; only the step after the last
\* phase writes the report, and it ends the run
OrderedStep ==
    /\ pc' # pc =>
          \E k \in 1..(Len(PhaseOrder) - 1) :
             /\ pc = PhaseOrder[k]
             /\ IF PhaseThrows
                THEN pc' = "done" /\ exitCode' = 1 /\ ~report'.written
                ELSE pc' = PhaseOrder[k + 1]
    /\ report' # report =>
          /\ ~report.written
          /\ report'.written
          /\ pc = "report"
          /\ pc' = "done"

\* C29: in a main-validator run the report is generated at most once, and
\* only after the phases ran in the fixed order structure check, per-type
\* validation (habits, research, locales), cross-references, translation
\* completeness, content quality; if any phase throws, no report file is
\* written and the process exits with status 1.
C29_ReportOnceAfterThePhases ==
    /\ [](report.written => pc = "done")
    /\ []((pc = "done" /\ ~report.written) => exitCode = 1)
    /\ [][OrderedStep]_vars

\* a phase after the per-type validation threw: files were validated, the
\* process has exited with status 1 and there is no report
C29_Witness ==
    /\ pc = "done"
    /\ ~report.written
    /\ exitCode = 1
    /\ stats.filesValidated > 0

\* the content files that exist and parse as JSON
ParsedFiles == {p \in Paths : fs[p].kind \in {"array", "object"}}

\* C30: at report time stats.filesValidated equals the number of (content
\* type, language) files that exist and parse as JSON (a parseable non-array
\* file counts, an absent or unparseable file does not), and never exceeds 12
\* (3 content types x 4 languages).
C30_FilesValidatedCountsParsedFiles ==
    report.written =>
        /\ report.statistics.filesValidated = Cardinality(ParsedFiles)
        /\ report.statistics.filesValidated <= 12

====
